---- MODULE Spec2Model ----
(***************************************************************************)
(* Model of the content pipeline of champ-site-project-chitin:            *)
(*   scripts/build-data.mjs       the builders (events, links, gallery,   *)
(*                                maps placeholder)                       *)
(*   scripts/validate-content.mjs the validator (src/unnamed/part_000)    *)
(*   scripts/verify-generated.mjs the drift checker                       *)
(*                                                                         *)
(* A JavaScript string is a sequence of one-character strings, so that    *)
(* trimming, prefix tests, splitting and the two string orders the code   *)
(* uses (code units for Array.prototype.sort(), collation for             *)
(* localeCompare) are computed and not assumed.                            *)
(***************************************************************************)
EXTENDS Integers, Sequences, FiniteSets, TLC

VARIABLES tree, data, pc, runs, readLog, errors, warnings, exitCode, gitStatus, arg, ret,
          browser, written

vars == <<tree, data, pc, runs, readLog, errors, warnings, exitCode, gitStatus, arg, ret,
          browser, written>>

----------------------------------------------------------------------------
(* Characters.  Each row: the character, its UTF-16 code unit, its primary *)
(* collation rank in the root collation localeCompare uses (white space <  *)
(* punctuation < symbols < digits < letters), and its case (tertiary)      *)
(* weight: 0 lower case or caseless, 1 upper case.                         *)

CharTable ==
  << <<"\t", 9, 1, 0>>, <<"\n", 10, 2, 0>>, <<"\r", 13, 3, 0>>, <<" ", 32, 4, 0>>,
     <<"_", 95, 5, 0>>, <<"-", 45, 6, 0>>, <<":", 58, 7, 0>>, <<"?", 63, 8, 0>>,
     <<".", 46, 9, 0>>, <<"(", 40, 10, 0>>, <<")", 41, 11, 0>>, <<"[", 91, 12, 0>>,
     <<"]", 93, 13, 0>>, <<"{", 123, 14, 0>>, <<"}", 125, 15, 0>>, <<"/", 47, 16, 0>>,
     <<"\\", 92, 17, 0>>, <<">", 62, 18, 0>>, <<"0", 48, 19, 0>>, <<"1", 49, 20, 0>>,
     <<"2", 50, 21, 0>>, <<"3", 51, 22, 0>>, <<"4", 52, 23, 0>>, <<"5", 53, 24, 0>>,
     <<"6", 54, 25, 0>>, <<"7", 55, 26, 0>>, <<"8", 56, 27, 0>>, <<"9", 57, 28, 0>>,
     <<"a", 97, 29, 0>>, <<"A", 65, 29, 1>>, <<"b", 98, 30, 0>>, <<"B", 66, 30, 1>>,
     <<"c", 99, 31, 0>>, <<"C", 67, 31, 1>>, <<"d", 100, 32, 0>>, <<"D", 68, 32, 1>>,
     <<"e", 101, 33, 0>>, <<"E", 69, 33, 1>>, <<"f", 102, 34, 0>>, <<"F", 70, 34, 1>>,
     <<"g", 103, 35, 0>>, <<"G", 71, 35, 1>>, <<"h", 104, 36, 0>>, <<"H", 72, 36, 1>>,
     <<"i", 105, 37, 0>>, <<"I", 73, 37, 1>>, <<"j", 106, 38, 0>>, <<"J", 74, 38, 1>>,
     <<"k", 107, 39, 0>>, <<"K", 75, 39, 1>>, <<"l", 108, 40, 0>>, <<"L", 76, 40, 1>>,
     <<"m", 109, 41, 0>>, <<"M", 77, 41, 1>>, <<"n", 110, 42, 0>>, <<"N", 78, 42, 1>>,
     <<"o", 111, 43, 0>>, <<"O", 79, 43, 1>>, <<"p", 112, 44, 0>>, <<"P", 80, 44, 1>>,
     <<"q", 113, 45, 0>>, <<"Q", 81, 45, 1>>, <<"r", 114, 46, 0>>, <<"R", 82, 46, 1>>,
     <<"s", 115, 47, 0>>, <<"S", 83, 47, 1>>, <<"t", 116, 48, 0>>, <<"T", 84, 48, 1>>,
     <<"u", 117, 49, 0>>, <<"U", 85, 49, 1>>, <<"v", 118, 50, 0>>, <<"V", 86, 50, 1>>,
     <<"w", 119, 51, 0>>, <<"W", 87, 51, 1>>, <<"x", 120, 52, 0>>, <<"X", 88, 52, 1>>,
     <<"y", 121, 53, 0>>, <<"Y", 89, 53, 1>>, <<"z", 122, 54, 0>>, <<"Z", 90, 54, 1>> >>

Alphabet == { CharTable[i][1] : i \in 1..Len(CharTable) }

Row(c) == CharTable[CHOOSE i \in 1..Len(CharTable) : CharTable[i][1] = c]

CodeUnit == [c \in Alphabet |-> Row(c)[2]]

Primary == [c \in Alphabet |-> Row(c)[3]]

Tertiary == [c \in Alphabet |-> Row(c)[4]]

\* String.prototype.trim's white space and the regular expressions' \s
IsSpace(c) == c \in {"\t", "\n", "\r", " "}

\* the regular expressions' \d
IsDigit(c) == c \in {"0", "1", "2", "3", "4", "5", "6", "7", "8", "9"}

DigitVal(c) == CodeUnit[c] - 48

\* String.prototype.toLowerCase, one character
LowerChar(c) ==
  IF Tertiary[c] = 1
    THEN CHOOSE d \in Alphabet : Primary[d] = Primary[c] /\ Tertiary[d] = 0
    ELSE c

----------------------------------------------------------------------------
(* String operations of the JavaScript runtime, on character sequences.    *)

RECURSIVE TrimStart(_)
TrimStart(s) ==
  IF s # <<>> /\ IsSpace(Head(s)) THEN TrimStart(Tail(s)) ELSE s

RECURSIVE TrimEnd(_)
TrimEnd(s) ==
  IF s # <<>> /\ IsSpace(s[Len(s)]) THEN TrimEnd(SubSeq(s, 1, Len(s) - 1)) ELSE s

Trim(s) == TrimEnd(TrimStart(s))

StartsWith(s, p) == Len(s) >= Len(p) /\ SubSeq(s, 1, Len(p)) = p

EndsWith(s, p) == Len(s) >= Len(p) /\ SubSeq(s, Len(s) - Len(p) + 1, Len(s)) = p

Slice(s, n) == SubSeq(s, n + 1, Len(s))

Includes(s, c) == \E i \in 1..Len(s) : s[i] = c

ToLowerCase(s) == [i \in 1..Len(s) |-> LowerChar(s[i])]

\* the first index at which p occurs in s, 0 when it does not
IndexOf(s, p) ==
  LET hits == { i \in 1..(Len(s) - Len(p) + 1) : SubSeq(s, i, i + Len(p) - 1) = p }
  IN  IF hits = {} THEN 0 ELSE CHOOSE i \in hits : \A j \in hits : i <= j

\* String.prototype.split on a non-empty separator string
RECURSIVE Split(_, _)
Split(s, sep) ==
  LET i == IndexOf(s, sep)
  IN  IF i = 0 THEN <<s>>
      ELSE <<SubSeq(s, 1, i - 1)>> \o Split(SubSeq(s, i + Len(sep), Len(s)), sep)

\* -1, 0 or 1: lexicographic comparison of a and b by the weight w of each character
RECURSIVE LexCompare(_, _, _)
LexCompare(a, b, w) ==
  IF a = <<>> /\ b = <<>> THEN 0
  ELSE IF a = <<>> THEN -1
  ELSE IF b = <<>> THEN 1
  ELSE IF w[Head(a)] < w[Head(b)] THEN -1
  ELSE IF w[Head(a)] > w[Head(b)] THEN 1
  ELSE LexCompare(Tail(a), Tail(b), w)

\* the default comparison of Array.prototype.sort(): UTF-16 code units
CodeUnitCompare(a, b) == LexCompare(a, b, CodeUnit)

\* String.prototype.localeCompare: primary weights first, case only as a tie-break
localeCompare(a, b) ==
  LET p == LexCompare(a, b, Primary)
  IN  IF p # 0 THEN p ELSE LexCompare(a, b, Tertiary)

----------------------------------------------------------------------------
(* Arrays.                                                                 *)

\* The comparators the source hands to Array.prototype.sort, applied to the keys
\* of two elements: "codeUnit" is sort() without a comparator, "locale" is
\* (a, b) => a.localeCompare(b), "localeDesc" is (a, b) => b.localeCompare(a).
Comparator(order, ka, kb) ==
  CASE order = "codeUnit" -> CodeUnitCompare(ka, kb)
    [] order = "locale" -> localeCompare(ka, kb)
    [] order = "localeDesc" -> localeCompare(kb, ka)

\* Array.prototype.sort is stable: an element goes after the last element that does
\* not compare greater.  Elements are <<key, value>> pairs.
RECURSIVE InsertSorted(_, _, _)
InsertSorted(x, sorted, order) ==
  IF sorted = <<>> THEN <<x>>
  ELSE IF Comparator(order, sorted[Len(sorted)][1], x[1]) <= 0 THEN Append(sorted, x)
  ELSE Append(InsertSorted(x, SubSeq(sorted, 1, Len(sorted) - 1), order), sorted[Len(sorted)])

RECURSIVE SortFrom(_, _, _)
SortFrom(todo, done, order) ==
  IF todo = <<>> THEN done
  ELSE SortFrom(Tail(todo), InsertSorted(Head(todo), done, order), order)

\* arr.sort(comparator over key(element)): keys[i] is the key of arr[i]
StableSort(arr, keys, order) ==
  LET sorted == SortFrom([i \in 1..Len(arr) |-> <<keys[i], arr[i]>>], <<>>, order)
  IN  [i \in 1..Len(arr) |-> sorted[i][2]]

\* the names of a directory listing (distinct strings) sorted
RECURSIVE SortNames(_, _)
SortNames(names, order) ==
  IF names = {} THEN <<>>
  ELSE LET first == CHOOSE n \in names : \A m \in names : Comparator(order, n, m) <= 0
       IN  <<first>> \o SortNames(names \ {first}, order)

----------------------------------------------------------------------------
(* Text constants of the source.                                           *)

EXT_TXT == <<".", "t", "x", "t">>
EXT_JSON == <<".", "j", "s", "o", "n">>
NL == <<"\n">>
SENTINEL_DATE == <<"9", "9", "9", "9", "-", "1", "2", "-", "3", "1">>
MIDNIGHT == <<"0", "0", ":", "0", "0">>
GENERAL == <<"G", "e", "n", "e", "r", "a", "l">>
IMAGES_SLASH == <<"i", "m", "a", "g", "e", "s", "/">>
GALLERY_SLASH == <<"g", "a", "l", "l", "e", "r", "y", "/">>
GALLERY_IMAGES_SLASH == GALLERY_SLASH \o IMAGES_SLASH
HTTP == <<"h", "t", "t", "p", ":", "/", "/">>
HTTPS == <<"h", "t", "t", "p", "s", ":", "/", "/">>
DATA_SLASH == <<"d", "a", "t", "a", "/">>
ARROW == <<" ", "-", ">", " ">>

\* the field names parseKeyValueTxt produces that the builders read
k_title == <<"t", "i", "t", "l", "e">>
k_event == <<"e", "v", "e", "n", "t">>
k_date == <<"d", "a", "t", "e">>
k_when == <<"w", "h", "e", "n">>
k_on == <<"o", "n">>
k_time == <<"t", "i", "m", "e">>
k_location == <<"l", "o", "c", "a", "t", "i", "o", "n">>
k_where == <<"w", "h", "e", "r", "e">>
k_link == <<"l", "i", "n", "k">>
k_url == <<"u", "r", "l">>
k_contact == <<"c", "o", "n", "t", "a", "c", "t">>
k_submitted_by == <<"s", "u", "b", "m", "i", "t", "t", "e", "d", "_", "b", "y">>
k_submittedby == <<"s", "u", "b", "m", "i", "t", "t", "e", "d", "b", "y">>
k_submitted == <<"s", "u", "b", "m", "i", "t", "t", "e", "d">>
k_description == <<"d", "e", "s", "c", "r", "i", "p", "t", "i", "o", "n">>
k_category == <<"c", "a", "t", "e", "g", "o", "r", "y">>

----------------------------------------------------------------------------
(* parseKeyValueTxt (build-data.mjs and the validator hold the same code). *)

IsLetter(c) == Primary[c] >= Primary["a"]

\* [A-Za-z\s\-]
IsLabelChar(c) == IsLetter(c) \/ IsSpace(c) \/ c = "-"

\* txt.split(/\r?\n/): a "\r" right before a line break belongs to the break
SplitLines(txt) ==
  LET parts == Split(txt, NL)
  IN  [i \in 1..Len(parts) |->
         IF i < Len(parts) /\ parts[i] # <<>> /\ parts[i][Len(parts[i])] = "\r"
           THEN SubSeq(parts[i], 1, Len(parts[i]) - 1)
           ELSE parts[i]]

\* the length of the longest prefix of s made of label characters
RECURSIVE LabelRun(_)
LabelRun(s) ==
  IF s # <<>> /\ IsLabelChar(Head(s)) THEN 1 + LabelRun(Tail(s)) ELSE 0

\* line.match(/^\s*([A-Za-z][A-Za-z\s\-]*)\s*:\s*(.*)\s*$/): the two groups, or
\* matched = FALSE.  The greedy first group is the longest run of label characters
\* after the leading white space; it must start with a letter and be followed by
\* the colon.  The "." of the second group matches no line terminator, so a "\r"
\* left inside the line by the split may only stand in the white space around the
\* value.
MatchLabelLine(line) ==
  LET t == TrimStart(line)
      n == LabelRun(t)
  IN  IF /\ t # <<>> /\ IsLetter(Head(t)) /\ n < Len(t) /\ t[n + 1] = ":"
         /\ ~Includes(Trim(Slice(t, n + 1)), "\r")
        THEN [matched |-> TRUE, label |-> SubSeq(t, 1, n), value |-> Slice(t, n + 1)]
        ELSE [matched |-> FALSE, label |-> <<>>, value |-> <<>>]

\* s.replace(/\s+/g, '_')
RECURSIVE CollapseSpaces(_)
CollapseSpaces(s) ==
  IF s = <<>> THEN <<>>
  ELSE IF IsSpace(Head(s)) THEN <<"_">> \o CollapseSpaces(TrimStart(s))
  ELSE <<Head(s)>> \o CollapseSpaces(Tail(s))

\* a variant replacing each white-space character by its own underscore
NormalizeKeyEachSpace(label) ==
  [i \in 1..Len(Trim(label)) |->
     IF IsSpace(Trim(label)[i]) THEN "_" ELSE LowerChar(Trim(label)[i])]

NormalizeKey(label) == CollapseSpaces(ToLowerCase(Trim(label)))

\* `out` is an object literal: a key it does not hold itself is looked up on
\* Object.prototype.  Of the inherited property names only "constructor" is a
\* possible normalized key (lower-case letters, "-" and "_", starting with a
\* letter); its value is the Object function, whose text `+=` concatenates.
k_constructor == <<"c", "o", "n", "s", "t", "r", "u", "c", "t", "o", "r">>
OBJECT_TEXT ==
  <<"f", "u", "n", "c", "t", "i", "o", "n", " ", "O", "b", "j", "e", "c", "t", "(", ")", " ", "{", " ", "[", "n", "a", "t", "i", "v", "e", " ", "c", "o", "d", "e", "]", " ", "}">>

\* pushLine: the first value of a key is stored, a later one appended after "\n";
\* `out[k] == null` is false for a key out holds and for an inherited property
pushLine(out, k, v) ==
  IF k = <<>> THEN out
  ELSE [x \in DOMAIN out \cup {k} |->
          IF x # k THEN out[x]
          ELSE IF k \in DOMAIN out THEN out[k] \o NL \o v
          ELSE IF k = k_constructor THEN OBJECT_TEXT \o NL \o v
          ELSE v]

RECURSIVE ParseLines(_, _, _)
ParseLines(lines, out, currentKey) ==
  IF lines = <<>> THEN out
  ELSE LET line == Head(lines)
           m == MatchLabelLine(line)
       IN  IF m.matched
             THEN LET key == NormalizeKey(m.label)
                  IN  ParseLines(Tail(lines), pushLine(out, key, Trim(m.value)), key)
             ELSE IF currentKey # <<>> /\ Trim(line) # <<>>
               THEN ParseLines(Tail(lines), pushLine(out, currentKey, Trim(line)), currentKey)
               ELSE ParseLines(Tail(lines), out, currentKey)

parseKeyValueTxt(txt) == ParseLines(SplitLines(txt), <<>>, <<>>)

\* kv.name: undefined and '' are both falsy in the || chains that read it
Field(kv, k) == IF k \in DOMAIN kv THEN kv[k] ELSE <<>>

\* a || b on strings
Or(a, b) == IF a # <<>> THEN a ELSE b

\* file.replace(/\.txt$/i, '') and file.replace(/\.json$/i, '')
StripExt(file, ext) ==
  IF EndsWith(ToLowerCase(file), ext) THEN SubSeq(file, 1, Len(file) - Len(ext)) ELSE file

----------------------------------------------------------------------------
(* The working tree.                                                       *)
(*   tree.events, tree.links, tree.news, tree.galleryMeta:                 *)
(*       [kind |-> "absent"], [kind |-> "file"] (a path that is no         *)
(*       directory) or [kind |-> "dir", files |-> name -> content]         *)
(*   tree.galleryIndex: [kind |-> "absent"] or [kind |-> "file", json |-> v]*)
(*   tree.images: the paths (segment sequences from the repository root)   *)
(*       of the files that exist besides the ones above                    *)
(* A .txt file's content is its text.  A .json file's content is what      *)
(* JSON.parse makes of it: [kind |-> "bad"] (a SyntaxError),               *)
(* [kind |-> "null"], [kind |-> "num"] (a value that is no object) or      *)
(* [kind |-> "obj", val |-> key -> string]; a legacy index is              *)
(* [kind |-> "index", items |-> array of such values] when it has an       *)
(* items array.                                                            *)
(* data.events, data.links, data.gallery, data.maps: [kind |-> "absent"]   *)
(* or [kind |-> "file", items |-> the items of the document written].      *)

Absent == [kind |-> "absent"]
NotADir == [kind |-> "file"]
Dir(files) == [kind |-> "dir", files |-> files]
JBad == [kind |-> "bad"]
JNull == [kind |-> "null"]
JNum == [kind |-> "num"]
JObj(val) == [kind |-> "obj", val |-> val]
JIndex(items) == [kind |-> "index", items |-> items]
Doc(items) == [kind |-> "file", items |-> items]

\* no page is open in a browser; the issue automation has written no file
NoBrowser == [kind |-> "none"]
NoFiles == <<>>

\* obj.key || '' for a parsed JSON value: a missing key is undefined
JGet(v, k) == IF v.kind = "obj" /\ k \in DOMAIN v.val THEN v.val[k] ELSE <<>>

\* fs.writeFileSync(path, content): the file holds content, whatever it held
writeFileSyncAppending(old, content) ==
  IF old.kind = "file" THEN Doc(old.items \o content.items) ELSE content

writeFileSync(old, content) == content

\* readdirSync(dir).filter(f => f.toLowerCase().endsWith(ext)).sort(...)
listNames(dir, ext, order) ==
  SortNames({ f \in DOMAIN dir.files : EndsWith(ToLowerCase(f), ext) }, order)

----------------------------------------------------------------------------
(* build-data.mjs                                                          *)

sortKeyOf(date, time) == Or(date, SENTINEL_DATE) \o <<"T">> \o Or(time, MIDNIGHT)

EventItem(file, txt) ==
  LET kv == parseKeyValueTxt(txt)
      date == Or(Field(kv, k_date), Or(Field(kv, k_when), Field(kv, k_on)))
      time == Field(kv, k_time)
  IN  [ id |-> file,
        title |-> Or(Field(kv, k_title), Or(Field(kv, k_event), StripExt(file, EXT_TXT))),
        date |-> date,
        time |-> time,
        location |-> Or(Field(kv, k_location), Field(kv, k_where)),
        link |-> Or(Field(kv, k_link), Field(kv, k_url)),
        contact |-> Or(Field(kv, k_contact), Or(Field(kv, k_submitted_by),
                       Or(Field(kv, k_submittedby), Field(kv, k_submitted)))),
        description |-> Field(kv, k_description),
        sortKey |-> sortKeyOf(date, time),
        source |-> "content/events" ]

\* items.sort((a, b) => String(a.sortKey).localeCompare(String(b.sortKey)))
sortBySortKeyUnsorted(items) == items

sortBySortKey(items) ==
  StableSort(items, [i \in 1..Len(items) |-> items[i].sortKey], "locale")

\* a variant building an item for the first file only
EventItemsFirstOnly(dir) ==
  LET files == listNames(dir, EXT_TXT, "codeUnit")
  IN  IF files = <<>> THEN <<>> ELSE <<EventItem(files[1], dir.files[files[1]])>>

EventItems(dir) ==
  LET files == listNames(dir, EXT_TXT, "codeUnit")
  IN  sortBySortKey([i \in 1..Len(files) |-> EventItem(files[i], dir.files[files[i]])])

LinkItem(file, txt) ==
  LET kv == parseKeyValueTxt(txt)
      title == Or(Field(kv, k_title), StripExt(file, EXT_TXT))
      category == Or(Field(kv, k_category), GENERAL)
  IN  [ id |-> file,
        title |-> title,
        url |-> Or(Field(kv, k_url), Field(kv, k_link)),
        description |-> Field(kv, k_description),
        category |-> category,
        sortKey |-> category \o <<":", ":">> \o title,
        source |-> "content/links" ]

LinkItems(dir) ==
  LET files == listNames(dir, EXT_TXT, "codeUnit")
  IN  sortBySortKey([i \in 1..Len(files) |-> LinkItem(files[i], dir.files[files[i]])])

\* fs.existsSync(metaDir) && fs.statSync(metaDir).isDirectory()
metaIsNonEmptyDirectory(t) ==
  t.galleryMeta.kind = "dir" /\ DOMAIN t.galleryMeta.files # {}

metaIsDirectory(t) == t.galleryMeta.kind = "dir"

\* the items normalizeGallery collects (build-data.mjs 129-151) and what it read
GallerySource(t) ==
  IF metaIsDirectory(t)
    THEN LET files == listNames(t.galleryMeta, EXT_JSON, "codeUnit")
             objs == SelectSeq([i \in 1..Len(files) |-> t.galleryMeta.files[files[i]]],
                               LAMBDA v : v.kind = "obj")
         IN  [items |-> objs, read |-> {"gallery/meta"}]
    ELSE IF t.galleryIndex.kind # "absent"
      THEN [items |-> IF t.galleryIndex.json.kind = "index"
                        THEN t.galleryIndex.json.items ELSE <<>>,
            read |-> {"gallery/index.json"}]
      ELSE [items |-> <<>>, read |-> {}]

\* a?.date || a?.id || ''
GalleryKey(v) == Or(JGet(v, "date"), JGet(v, "id"))

\* a variant leaving the items in the order they were read
sortNewestFirstUnsorted(items) == items

\* items.sort((a, b) => String(db).localeCompare(String(da))): newest first
sortNewestFirst(items) ==
  StableSort(items, [i \in 1..Len(items) |-> GalleryKey(items[i])], "localeDesc")

\* the image normalizeGallery writes for a source image (build-data.mjs 162-165)
normImageAlwaysPrefixed(image) == GALLERY_SLASH \o Trim(image)

normImage(image) ==
  LET img == Trim(image)
  IN  IF StartsWith(img, IMAGES_SLASH) THEN GALLERY_SLASH \o img ELSE img

\* { ...it, image }
NormItem(v) ==
  LET it == IF v.kind = "obj" THEN v.val ELSE <<>>
  IN  [k \in DOMAIN it \cup {"image"} |->
         IF k = "image" THEN normImage(JGet(v, "image")) ELSE it[k]]

\* it.image of a null item raises a TypeError nothing catches
GalleryThrows(items) == \E i \in 1..Len(items) : items[i].kind = "null"

MapsExample ==
  Doc(<< [ id |-> "north-shore-forays",
           title |-> "North Shore Foray Spots (placeholder)",
           description |-> "Add GeoJSON layers or embedded maps here later.",
           type |-> "placeholder",
           url |-> "" ] >>)

\* if (fs.existsSync(outPath)) return; fs.writeFileSync(outPath, example)
mapsAfterOverwriting(old) == MapsExample

mapsAfter(old) == IF old.kind # "absent" THEN old ELSE writeFileSync(old, MapsExample)

----------------------------------------------------------------------------
(* The validator's field validators (src/unnamed/part_000 90-127).         *)

nonEmpty(s) == Trim(s) # <<>>

\* /^\d{4}-\d{2}-\d{2}$/
MatchesDateShape(v) ==
  /\ Len(v) = 10
  /\ \A i \in {1, 2, 3, 4, 6, 7, 9, 10} : IsDigit(v[i])
  /\ v[5] = "-" /\ v[8] = "-"

\* the number a string of digits denotes
RECURSIVE ToNumber(_)
ToNumber(ds) ==
  IF ds = <<>> THEN 0 ELSE 10 * ToNumber(SubSeq(ds, 1, Len(ds) - 1)) + DigitVal(ds[Len(ds)])

DigitChar(n) == CHOOSE c \in Alphabet : IsDigit(c) /\ DigitVal(c) = n

\* a number in decimal, padded with zeros to a width
RECURSIVE Padded(_, _)
Padded(n, width) ==
  IF width = 0 THEN <<>> ELSE Append(Padded(n \div 10, width - 1), DigitChar(n % 10))

\* The day number of a year, month and day of month, counted from 1 March of the
\* year -400 of the proleptic Gregorian calendar.  As the engine's MakeDay, a day
\* of month past the month's end runs on into the next month.
DayNumber(y, m, d) ==
  LET yy == (IF m <= 2 THEN y - 1 ELSE y) + 400
      yoe == yy % 400
      mp == (m + 9) % 12
      doy == (153 * mp + 2) \div 5 + d - 1
  IN  (yy \div 400) * 146097 + yoe * 365 + yoe \div 4 - yoe \div 100 + doy

\* the <<year, month, day>> of a day number
CivilDate(z) ==
  LET doe == z % 146097
      yoe == (doe - doe \div 1460 + doe \div 36524 - doe \div 146096) \div 365
      doy == doe - (365 * yoe + yoe \div 4 - yoe \div 100)
      mp == (5 * doy + 2) \div 153
      d == doy - (153 * mp + 2) \div 5 + 1
      m == IF mp < 10 THEN mp + 3 ELSE mp - 9
  IN  <<yoe + (z \div 146097) * 400 + (IF m <= 2 THEN 1 ELSE 0) - 400, m, d>>

\* new Date(`${v}T00:00:00Z`) for v of the date shape: the day number, or -1 for an
\* invalid date (a month outside 1..12 or a day outside 1..31)
ParseUtcDate(v) ==
  LET y == ToNumber(SubSeq(v, 1, 4))
      m == ToNumber(SubSeq(v, 6, 7))
      d == ToNumber(SubSeq(v, 9, 10))
  IN  IF m \in 1..12 /\ d \in 1..31 THEN DayNumber(y, m, d) ELSE -1

\* dt.toISOString().slice(0, 10)
IsoDatePart(z) ==
  LET c == CivilDate(z)
  IN  Padded(c[1], 4) \o <<"-">> \o Padded(c[2], 2) \o <<"-">> \o Padded(c[3], 2)

isIsoDateShapeOnly(s) == MatchesDateShape(Trim(s))

isIsoDate(s) ==
  LET v == Trim(s)
  IN  IF ~MatchesDateShape(v) THEN FALSE
      ELSE LET dt == ParseUtcDate(v)
           IN  IF dt < 0 THEN FALSE ELSE IsoDatePart(dt) = v

\* a variant checking the shape only, not the ranges
isHHmmOptionalShapeOnly(s) ==
  LET v == Trim(s)
  IN  v = <<>> \/ (Len(v) = 5 /\ IsDigit(v[1]) /\ IsDigit(v[2]) /\ v[3] = ":"
                    /\ IsDigit(v[4]) /\ IsDigit(v[5]))

isHHmmOptional(s) ==
  LET v == Trim(s)
  IN  IF v = <<>> THEN TRUE
      ELSE IF ~(Len(v) = 5 /\ IsDigit(v[1]) /\ IsDigit(v[2]) /\ v[3] = ":"
                /\ IsDigit(v[4]) /\ IsDigit(v[5])) THEN FALSE
      ELSE LET hh == ToNumber(SubSeq(v, 1, 2))
               mm == ToNumber(SubSeq(v, 4, 5))
           IN  hh >= 0 /\ hh <= 23 /\ mm >= 0 /\ mm <= 59

\* /^https?:\/\//i
HasHttpScheme(v) ==
  StartsWith(ToLowerCase(v), HTTP) \/ StartsWith(ToLowerCase(v), HTTPS)

\* /^https?:\/\/\S+$/i
MatchesHttpUrl(v) ==
  LET rest == IF StartsWith(ToLowerCase(v), HTTPS) THEN Slice(v, Len(HTTPS))
              ELSE IF StartsWith(ToLowerCase(v), HTTP) THEN Slice(v, Len(HTTP))
              ELSE <<>>
  IN  /\ HasHttpScheme(v)
      /\ rest # <<>>
      /\ \A i \in 1..Len(rest) : ~IsSpace(rest[i])

isHttpUrlRequiredAnyText(s) == Trim(s) # <<>>

isHttpUrlRequired(s) ==
  LET v == Trim(s)
  IN  IF v = <<>> THEN FALSE ELSE MatchesHttpUrl(v)

\* a variant rejecting the empty string as the required validator does
isHttpUrlOptionalRejectingEmpty(s) == Trim(s) # <<>> /\ MatchesHttpUrl(Trim(s))

isHttpUrlOptional(s) ==
  LET v == Trim(s)
  IN  IF v = <<>> THEN TRUE ELSE MatchesHttpUrl(v)

\* name.match(/^(\d{4}-\d{2}-\d{2})-/): the date prefix of a file name, or ''
filenameIsoDatePrefix(name) ==
  IF Len(name) >= 11 /\ MatchesDateShape(SubSeq(name, 1, 10)) /\ name[11] = "-"
    THEN SubSeq(name, 1, 10) ELSE <<>>

\* /^\d{4}-\d{2}-\d{2}-.+\.txt$/i and the same for .json
HasRecommendedName(file, ext) ==
  /\ filenameIsoDatePrefix(file) # <<>>
  /\ EndsWith(ToLowerCase(file), ext)
  /\ Len(file) >= 11 + 1 + Len(ext)
  /\ \A i \in 12..(Len(file) - Len(ext)) : file[i] \notin {"\n", "\r"}

----------------------------------------------------------------------------
(* Paths and resolveGalleryImage (src/unnamed/part_000 4-12, 147-176).     *)
(* A path is the sequence of its segments from the file system's root.     *)

seg_gallery == <<"g", "a", "l", "l", "e", "r", "y">>
seg_images == <<"i", "m", "a", "g", "e", "s">>

\* process.cwd()
ROOT == << <<"r">> >>

\* DIRS.galleryImages
galleryImages == ROOT \o <<seg_gallery, seg_images>>

\* path.normalize on segments: '' and '.' are dropped, '..' drops its parent
RECURSIVE NormalizeSegments(_, _)
NormalizeSegments(segs, acc) ==
  IF segs = <<>> THEN acc
  ELSE LET sg == Head(segs)
       IN  IF sg = <<>> \/ sg = <<".">> THEN NormalizeSegments(Tail(segs), acc)
           ELSE IF sg = <<".", ".">>
             THEN NormalizeSegments(Tail(segs),
                                    IF acc = <<>> THEN acc ELSE SubSeq(acc, 1, Len(acc) - 1))
           ELSE NormalizeSegments(Tail(segs), Append(acc, sg))

\* path.join(base, rel) on a POSIX system, base an absolute path
pathJoin(base, rel) == NormalizeSegments(base \o Split(rel, <<"/">>), <<>>)

Resolved(kind, value, line) == [kind |-> kind, value |-> value, line |-> line]

\* as the function below, but the images/ prefix is not stripped
resolveGalleryImageKeepingPrefix(image) ==
  LET v == Trim(image)
  IN  IF v = <<>> THEN Resolved("null", <<>>, 155)
      ELSE IF HasHttpScheme(v) THEN Resolved("url", v, 157)
      ELSE IF StartsWith(v, IMAGES_SLASH)
        THEN Resolved("file", pathJoin(galleryImages, v), 160)
      ELSE IF StartsWith(v, GALLERY_IMAGES_SLASH)
        THEN Resolved("file", pathJoin(galleryImages, Slice(v, Len(GALLERY_IMAGES_SLASH))), 164)
      ELSE IF StartsWith(v, GALLERY_SLASH) THEN Resolved("file", pathJoin(ROOT, v), 168)
      ELSE IF ~Includes(v, "/") /\ ~Includes(v, "\\")
        THEN Resolved("file", pathJoin(galleryImages, v), 172)
      ELSE Resolved("file", pathJoin(ROOT, v), 175)

\* The value returned, with the line of the return statement that returned it:
\* kind "null" stands for null.
resolveGalleryImage(image) ==
  LET v == Trim(image)
  IN  IF v = <<>> THEN Resolved("null", <<>>, 155)
      ELSE IF HasHttpScheme(v) THEN Resolved("url", v, 157)
      ELSE IF StartsWith(v, IMAGES_SLASH)
        THEN Resolved("file", pathJoin(galleryImages, Slice(v, Len(IMAGES_SLASH))), 160)
      ELSE IF StartsWith(v, GALLERY_IMAGES_SLASH)
        THEN Resolved("file", pathJoin(galleryImages, Slice(v, Len(GALLERY_IMAGES_SLASH))), 164)
      ELSE IF StartsWith(v, GALLERY_SLASH) THEN Resolved("file", pathJoin(ROOT, v), 168)
      ELSE IF ~Includes(v, "/") /\ ~Includes(v, "\\")
        THEN Resolved("file", pathJoin(galleryImages, v), 172)
      ELSE Resolved("file", pathJoin(ROOT, v), 175)

----------------------------------------------------------------------------
(* The validator (src/unnamed/part_000 180-397).                           *)
(* A finding is [file |-> <<directory, file name>>, msg |-> the fixed      *)
(* start of the message, detail |-> the value quoted in it].  Each         *)
(* validate function gives [errors, warnings, threw]: what it appended to  *)
(* the two arrays, and whether it ended in an exception nothing catches.   *)

Finding(dir, file, msg, detail) == [file |-> <<dir, file>>, msg |-> msg, detail |-> detail]

\* the statement `if (cond) push(...)`
When(cond, finding) == IF cond THEN <<finding>> ELSE <<>>

\* listFiles(dir, ext): [] unless dir is a directory; sorted by localeCompare
listFiles(d, ext) == IF d.kind # "dir" THEN <<>> ELSE listNames(d, ext, "locale")

NEWS_TYPES ==
  { <<"a", "n", "n", "o", "u", "n", "c", "e", "m", "e", "n", "t">>,
    <<"u", "p", "d", "a", "t", "e", "s">>,
    <<"f", "i", "e", "l", "d", "-", "n", "o", "t", "e", "s">>,
    <<"i", "n", "-", "t", "h", "e", "-", "n", "e", "w", "s">>,
    <<"i", "d", "e", "a", "s">>,
    <<"a", "d", "m", "i", "n">>,
    <<"q", "a">> }

\* const x = value; body: the value is computed once, where it is bound
Const(value, Body(_)) == CHOOSE r \in { Body(x) : x \in {value} } : TRUE

\* the constants of one pass of validateEvents' loop (lines 186-197)
EventFields(file, txt) ==
  Const(parseKeyValueTxt(txt), LAMBDA kv :
    [ title |-> Or(Field(kv, k_title), Or(Field(kv, k_event), StripExt(file, EXT_TXT))),
      date |-> Or(Or(Field(kv, k_date), Or(Field(kv, k_when), Field(kv, k_on))),
                  filenameIsoDatePrefix(file)),
      time |-> Field(kv, k_time),
      location |-> Or(Field(kv, k_location), Field(kv, k_where)),
      link |-> Or(Field(kv, k_link), Field(kv, k_url)),
      contact |-> Or(Field(kv, k_contact), Or(Field(kv, k_submitted_by),
                     Or(Field(kv, k_submittedby), Field(kv, k_submitted)))),
      description |-> Field(kv, k_description) ])

\* one pass of validateEvents' loop (lines 185-221)
EventFindings(file, txt, seen) ==
  Const(EventFields(file, txt), LAMBDA e :
    [ errors |->
        When(file \in seen,
             Finding("content/events", file, "Duplicate event filename/id", file))
        \o When(~nonEmpty(e.date), Finding("content/events", file, "Missing date", <<>>))
        \o When(nonEmpty(e.date) /\ ~isIsoDate(e.date),
                Finding("content/events", file, "Invalid date", e.date))
        \o When(~isHHmmOptional(e.time),
                Finding("content/events", file, "Invalid time", e.time))
        \o When(~isHttpUrlOptional(e.link),
                Finding("content/events", file, "Invalid link", e.link)),
      warnings |->
        When(~HasRecommendedName(file, EXT_TXT),
             Finding("content/events", file, "Recommended filename", file))
        \o When(~nonEmpty(e.title), Finding("content/events", file, "Missing Title", <<>>))
        \o When(~nonEmpty(e.location),
                Finding("content/events", file, "Missing Location", <<>>))
        \o When(~nonEmpty(e.description),
                Finding("content/events", file, "Missing Description", <<>>)) ])

\* a variant deriving the category without the "General" default
LinkFieldsNoDefault(file, txt) ==
  Const(parseKeyValueTxt(txt), LAMBDA kv :
    [ title |-> Or(Field(kv, k_title), StripExt(file, EXT_TXT)),
      url |-> Or(Field(kv, k_url), Field(kv, k_link)),
      description |-> Field(kv, k_description),
      category |-> Field(kv, k_category) ])

\* the constants of one pass of validateLinks' loop (lines 233-238)
LinkFields(file, txt) ==
  Const(parseKeyValueTxt(txt), LAMBDA kv :
    [ title |-> Or(Field(kv, k_title), StripExt(file, EXT_TXT)),
      url |-> Or(Field(kv, k_url), Field(kv, k_link)),
      description |-> Field(kv, k_description),
      category |-> Or(Field(kv, k_category), GENERAL) ])

\* one pass of validateLinks' loop (lines 232-250)
LinkFindings(file, txt, seen) ==
  Const(LinkFields(file, txt), LAMBDA l :
    [ errors |->
        When(file \in seen, Finding("content/links", file, "Duplicate link filename/id", file))
        \o When(~nonEmpty(l.url), Finding("content/links", file, "Missing URL", <<>>))
        \o When(nonEmpty(l.url) /\ ~isHttpUrlRequired(l.url),
                Finding("content/links", file, "Invalid URL", l.url)),
      warnings |->
        When(~nonEmpty(l.title), Finding("content/links", file, "Missing Title", <<>>))
        \o When(~nonEmpty(l.category), Finding("content/links", file, "Missing Category", <<>>))
        \o When(~nonEmpty(l.description),
                Finding("content/links", file, "No Description", <<>>)) ])

\* the loop of validateEvents (kind "events") and of validateLinks (kind "links")
RECURSIVE ValidateTxtFiles(_, _, _, _, _)
ValidateTxtFiles(kind, d, files, seen, acc) ==
  IF files = <<>> THEN acc
  ELSE LET file == Head(files)
           f == IF kind = "events" THEN EventFindings(file, d.files[file], seen)
                ELSE LinkFindings(file, d.files[file], seen)
       IN  ValidateTxtFiles(kind, d, Tail(files), seen \cup {file},
                            [acc EXCEPT !.errors = @ \o f.errors, !.warnings = @ \o f.warnings])

NoFindings == [errors |-> <<>>, warnings |-> <<>>, threw |-> FALSE]

validateEvents(t) ==
  ValidateTxtFiles("events", t.events, listFiles(t.events, EXT_TXT), {}, NoFindings)

validateLinks(t) ==
  ValidateTxtFiles("links", t.links, listFiles(t.links, EXT_TXT), {}, NoFindings)

\* String(obj.key || '').trim()
JText(obj, k) == Trim(JGet(obj, k))

\* the constants of one pass of validateNews' loop (lines 275-281)
NewsFields(obj) ==
  [ id |-> JText(obj, "id"), title |-> JText(obj, "title"), date |-> JText(obj, "date"),
    type |-> JText(obj, "type"), summary |-> JText(obj, "summary"),
    body |-> JText(obj, "body"), thumb |-> JText(obj, "thumb") ]

\* one pass of validateNews' loop for a file that parsed to a value that is not
\* null (lines 275-307)
NewsFindings(file, obj, seenIds) ==
  Const(NewsFields(obj), LAMBDA n :
    [ errors |->
        When(n.id = <<>>, Finding("content/news", file, "Missing required field id", <<>>))
        \o When(n.title = <<>>,
                Finding("content/news", file, "Missing required field title", <<>>))
        \o When(n.date = <<>>,
                Finding("content/news", file, "Missing required field date", <<>>))
        \o When(n.date # <<>> /\ ~isIsoDate(n.date),
                Finding("content/news", file, "Invalid date", n.date))
        \o When(n.type = <<>>,
                Finding("content/news", file, "Missing required field type", <<>>))
        \o When(n.type # <<>> /\ n.type \notin NEWS_TYPES,
                Finding("content/news", file, "Invalid type. Must be one of", n.type))
        \o When(n.thumb # <<>> /\ ~isHttpUrlOptional(n.thumb),
                Finding("content/news", file, "Invalid thumb", n.thumb))
        \o When(n.id # <<>> /\ n.id \in seenIds,
                Finding("content/news", file, "Duplicate news id", n.id)),
      warnings |->
        When(n.summary = <<>>, Finding("content/news", file, "Missing summary", <<>>))
        \o When(n.body = <<>>, Finding("content/news", file, "Missing body", <<>>))
        \o When(~HasRecommendedName(file, EXT_JSON),
                Finding("content/news", file, "Recommended filename", file)),
      id |-> n.id ])

\* the gallery id of a meta file: String(obj.id || filenameBase).trim()
galleryId(obj, file) == Trim(Or(JGet(obj, "id"), StripExt(file, EXT_JSON)))

\* asArray(obj.tags).map((t) => String(t).trim()).filter(Boolean); a tags value is
\* [isArray |-> BOOLEAN, items |-> the strings of the array, or the one value]
TagsOf(obj) ==
  IF obj.kind = "obj" /\ "tags" \in DOMAIN obj.val
    THEN SelectSeq([i \in 1..Len(obj.val["tags"].items) |-> Trim(obj.val["tags"].items[i])],
                   LAMBDA x : x # <<>>)
    ELSE <<>>

\* fs.accessSync(p): the image files of the tree
exists(t, path) == path \in t.images

\* the image checks of validateGallery (lines 348-363)
ImageFindings(t, file, image) ==
  LET dir == "gallery/meta"
      resolved == resolveGalleryImage(image)
  IN  IF image = <<>> THEN <<Finding(dir, file, "Missing required field image", <<>>)>>
      ELSE IF resolved.kind = "null" THEN <<Finding(dir, file, "Invalid image value", image)>>
      ELSE IF resolved.kind = "url"
        THEN When(~isHttpUrlRequired(resolved.value),
                  Finding(dir, file, "Invalid image URL", resolved.value))
      ELSE When(~exists(t, resolved.value),
                Finding(dir, file, "Image file does not exist", image))

\* for (const t of tags) if (t.length > 64) pushWarn(... t.slice(0, 80) ...)
LongTagFindings(file, longTags) ==
  [i \in 1..Len(longTags) |->
     Finding("gallery/meta", file, "Tag is very long",
             SubSeq(longTags[i], 1, IF Len(longTags[i]) < 80 THEN Len(longTags[i]) ELSE 80))]

\* the constants of one pass of validateGallery's loop (lines 327-344)
GalleryFields(file, obj) ==
  [ id |-> galleryId(obj, file),
    title |-> Trim(Or(JGet(obj, "title"), Or(JGet(obj, "name"), JGet(obj, "caption")))),
    date |-> JText(obj, "date"),
    image |-> Trim(Or(JGet(obj, "image"), Or(JGet(obj, "image_filename"), JGet(obj, "src")))),
    credit |-> Trim(Or(JGet(obj, "credit"),
                       Or(JGet(obj, "submitted_by"), JGet(obj, "submittedby")))),
    description |-> JText(obj, "description"),
    tags |-> TagsOf(obj) ]

\* one pass of validateGallery's loop for a file that parsed to a value that is not
\* null (lines 327-393)
GalleryFindings(t, file, obj, seenIds) ==
  Const(GalleryFields(file, obj), LAMBDA g :
    [ errors |->
        When(g.id = <<>>, Finding("gallery/meta", file, "Missing id", <<>>))
        \o ImageFindings(t, file, g.image)
        \o When(g.date # <<>> /\ ~isIsoDate(g.date),
                Finding("gallery/meta", file, "Invalid date", g.date))
        \o When(g.id # <<>> /\ g.id \in seenIds,
                Finding("gallery/meta", file, "Duplicate gallery id", g.id)),
      warnings |->
        When(g.date = <<>>, Finding("gallery/meta", file, "Missing date", <<>>))
        \o When(g.title = <<>>, Finding("gallery/meta", file, "Missing title", <<>>))
        \o When(obj.kind = "obj" /\ "tags" \in DOMAIN obj.val /\ ~obj.val["tags"].isArray,
                Finding("gallery/meta", file, "tags is not an array", <<>>))
        \o LongTagFindings(file, SelectSeq(g.tags, LAMBDA x : Len(x) > 64))
        \o When(JText(obj, "id") # <<>> /\ file # JText(obj, "id") \o EXT_JSON,
                Finding("gallery/meta", file, "Recommended filename", JText(obj, "id")))
        \o When(g.credit = <<>>, Finding("gallery/meta", file, "No credit", <<>>))
        \o When(g.description = <<>>, Finding("gallery/meta", file, "No description", <<>>)),
      id |-> g.id ])

\* The loop of validateNews (kind "news") and of validateGallery (kind "gallery"): a
\* file that does not parse gets the error readJson throws and the loop goes on; a
\* file that parses to null ends the run, reading a property of null.
RECURSIVE ValidateJsonFiles(_, _, _, _, _, _)
ValidateJsonFiles(kind, t, d, files, seenIds, acc) ==
  IF files = <<>> THEN acc
  ELSE LET file == Head(files)
           obj == d.files[file]
           dir == IF kind = "news" THEN "content/news" ELSE "gallery/meta"
       IN  IF obj.kind = "bad"
             THEN ValidateJsonFiles(kind, t, d, Tail(files), seenIds,
                    [acc EXCEPT !.errors = Append(@, Finding(dir, file, "Invalid JSON", <<>>))])
           ELSE IF obj.kind = "null" THEN [acc EXCEPT !.threw = TRUE]
           ELSE LET f == IF kind = "news" THEN NewsFindings(file, obj, seenIds)
                         ELSE GalleryFindings(t, file, obj, seenIds)
                IN  ValidateJsonFiles(kind, t, d, Tail(files),
                      IF f.id # <<>> THEN seenIds \cup {f.id} ELSE seenIds,
                      [acc EXCEPT !.errors = @ \o f.errors, !.warnings = @ \o f.warnings])

\* if (!isDir(DIRS.news)) return 0
validateNews(t) ==
  IF t.news.kind # "dir" THEN NoFindings
  ELSE ValidateJsonFiles("news", t, t.news, listFiles(t.news, EXT_JSON), {}, NoFindings)

validateGallery(t) ==
  ValidateJsonFiles("gallery", t, t.galleryMeta, listFiles(t.galleryMeta, EXT_JSON), {},
                    NoFindings)

\* main (lines 428-439): process.exit(1) if errors.length, else process.exit(0)
exitStatusCountingWarnings(errs, warns) == IF Len(errs) + Len(warns) > 0 THEN 1 ELSE 0

exitStatus(errs, warns) == IF Len(errs) > 0 THEN 1 ELSE 0

----------------------------------------------------------------------------
(* Bounds and the source files the model draws its working trees from.     *)

\* the most .txt files in a content directory
MaxTxtFiles == 2

\* the most metadata files in gallery/meta
MaxMetaFiles == 2

\* the most runs of a script
MaxRuns == 2

Min(a, b) == IF a < b THEN a ELSE b

FirstN(pool, n) == { pool[i] : i \in 1..Min(n, Len(pool)) }

\* every directory content with names from a set and contents from a set
DirsOver(names, contents) == UNION { [S -> contents] : S \in SUBSET names }

d_jan5 == <<"2", "0", "2", "4", "-", "0", "1", "-", "0", "5">>
d_mar1 == <<"2", "0", "2", "4", "-", "0", "3", "-", "0", "1">>
d_tbd == <<"T", "B", "D">>
t_0930 == <<"0", "9", ":", "3", "0">>
u_http == HTTP \o <<"a", ".", "b", "/", "p", ".", "j", "p", "g">>
u_ftp == <<"f", "t", "p", ":", "/", "/", "a", ".", "b">>
x_id == <<"x">>

Labelled(label, value) == label \o <<":", " ">> \o value

TxtNamePool ==
  << <<"b", ".", "t", "x", "t">>, <<"A", ".", "T", "X", "T">>,
     <<"c", ".", "t", "x", "t">>, <<"a", ".", "t", "x", "t">> >>

\* a file the builders' and the validator's extension filter leaves out
StrayName == <<"b", ".", "m", "d">>

EventTexts ==
  { Labelled(<<"D", "a", "t", "e">>, d_jan5) \o NL \o Labelled(<<"T", "i", "m", "e">>, t_0930),
    Labelled(<<"W", "h", "e", "n">>, d_mar1) \o <<"\r">> \o NL
      \o Labelled(<<"L", "i", "n", "k">>, u_ftp),
    Labelled(<<"T", "i", "t", "l", "e">>, <<"a">>) \o NL \o <<" ", "b", " ">>,
    Labelled(<<"D", "a", "t", "e">>, SENTINEL_DATE) \o NL
      \o Labelled(<<"T", "i", "m", "e">>, t_0930),
    Labelled(<<"D", "a", "t", "e">>, d_tbd),
    Labelled(<<"T", "i", "m", "e">>, t_0930) }

LinkTexts ==
  { Labelled(<<"T", "i", "t", "l", "e">>, <<"a">>) \o NL \o Labelled(<<"U", "R", "L">>, u_http),
    Labelled(<<"U", "R", "L">>, u_http),
    Labelled(<<"T", "i", "t", "l", "e">>, <<"a">>) \o NL
      \o Labelled(<<"C", "a", "t", "e", "g", "o", "r", "y">>, <<"m", "a", "p", "s">>) \o NL
      \o Labelled(<<"L", "i", "n", "k">>, u_ftp),
    Labelled(<<"T", "i", "t", "l", "e">>, <<"a">>) }

WithStray(dirs, content) ==
  dirs \cup { [f \in DOMAIN d \cup {StrayName} |-> IF f = StrayName THEN content ELSE d[f]]
              : d \in dirs }

EventDirs ==
  { Dir(d) : d \in WithStray(DirsOver(FirstN(TxtNamePool, MaxTxtFiles), EventTexts),
                             Labelled(<<"D", "a", "t", "e">>, d_jan5)) }

LinkDirs == { Dir(d) : d \in DirsOver(FirstN(TxtNamePool, MaxTxtFiles), LinkTexts) }

MetaNamePool ==
  << <<"b", ".", "j", "s", "o", "n">>, <<"a", ".", "j", "s", "o", "n">>,
     <<"c", ".", "j", "s", "o", "n">>, <<"d", ".", "j", "s", "o", "n">> >>

img_rel == IMAGES_SLASH \o <<"p", ".", "j", "p", "g">>
img_padded == <<" ">> \o GALLERY_IMAGES_SLASH \o <<"p", ".", "j", "p", "g">> \o <<" ">>
img_bare == <<"q", ".", "j", "p", "g">>

GalleryObjects ==
  { JObj([id |-> x_id, image |-> img_rel]),
    JObj([id |-> x_id, image |-> u_http, date |-> d_jan5]),
    JObj([image |-> img_padded, title |-> <<"a">>]),
    JObj([id |-> <<" ">>, image |-> img_bare]),
    JObj([id |-> <<"x", " ">>, date |-> d_mar1]) }

MetaContents == GalleryObjects \cup {JBad, JNull}

MetaDirs == { Dir(d) : d \in DirsOver(FirstN(MetaNamePool, MaxMetaFiles), MetaContents) }

IndexWithItem == [kind |-> "file", json |-> JIndex(<< JObj([id |-> x_id, image |-> u_http]) >>)]

LegacyIndexes ==
  { Absent,
    [kind |-> "file", json |-> JBad],
    [kind |-> "file", json |-> JNull],
    [kind |-> "file", json |-> JObj([id |-> x_id])],
    IndexWithItem,
    [kind |-> "file", json |-> JIndex(<< JObj([id |-> x_id, image |-> img_rel]), JNull >>)],
    [kind |-> "file", json |-> JIndex(<< JNum, JObj([image |-> img_padded, date |-> d_jan5]),
                                          JObj([id |-> d_jan5, image |-> img_bare]) >>)] }

CustomMaps == Doc(<< [id |-> "my-map", title |-> "kept"] >>)

BaseEvents == Dir([f \in {TxtNamePool[1]} |-> Labelled(<<"D", "a", "t", "e">>, d_jan5)])
BaseLinks == Dir([f \in {TxtNamePool[1]} |-> Labelled(<<"U", "R", "L">>, u_http)])
BaseMeta == Dir([f \in {MetaNamePool[1]} |-> JObj([id |-> x_id, image |-> img_rel])])
NoNews == Absent
BaseImages == { galleryImages \o << <<"p", ".", "j", "p", "g">> >> }

n_dated_txt == <<"2", "0", "2", "4", "-", "0", "1", "-", "0", "5", "-", "a", ".", "t", "x", "t">>

\* an events directory whose one file has its date in its name only
DatedNameEvents ==
  Dir([f \in {n_dated_txt} |->
         Labelled(<<"T", "i", "m", "e">>, t_0930) \o NL
           \o Labelled(<<"S", "u", "b", "m", "i", "t", "t", "e", "d", " ", "b", "y">>, <<"a">>)])

\* meta directories of one file whose image exists under gallery/images and is
\* given as a bare name, under image_filename, or under src
img_name == <<"p", ".", "j", "p", "g">>

LocalImageMetaDirs ==
  { Dir([f \in {MetaNamePool[1]} |-> obj]) :
      obj \in { JObj([id |-> x_id, image |-> img_name]),
                JObj([id |-> x_id, image_filename |-> img_rel]),
                JObj([id |-> x_id, src |-> GALLERY_IMAGES_SLASH \o img_name]) } }

MkTree(ev, lk, nw, gm, gi, im) ==
  [events |-> ev, links |-> lk, news |-> nw, galleryMeta |-> gm, galleryIndex |-> gi,
   images |-> im]

\* the working trees the builders run on: one section varies, the others are fixed
BuildTrees ==
  { MkTree(ev, BaseLinks, NoNews, BaseMeta, Absent, BaseImages) : ev \in EventDirs \cup {Absent, DatedNameEvents} }
  \cup { MkTree(BaseEvents, lk, NoNews, BaseMeta, Absent, BaseImages) : lk \in LinkDirs }
  \cup { MkTree(BaseEvents, BaseLinks, NoNews, gm, gi, BaseImages) :
           gm \in MetaDirs, gi \in {Absent, IndexWithItem} }
  \cup { MkTree(BaseEvents, BaseLinks, NoNews, gm, gi, BaseImages) :
           gm \in {Absent, NotADir}, gi \in LegacyIndexes }
  \cup { MkTree(BaseEvents, BaseLinks, NoNews, gm, Absent, BaseImages) :
           gm \in LocalImageMetaDirs }

NoData == [events |-> Absent, links |-> Absent, gallery |-> Absent, maps |-> Absent]

\* the most .json files in a directory the validator reads
MaxJsonFiles == 3

n_dated_json == <<"2", "0", "2", "4", "-", "0", "1", "-", "0", "5", "-", "n", ".", "j", "s", "o", "n">>

ValidatorTxtNames == << n_dated_txt, <<"b", ".", "t", "x", "t">>, <<"A", ".", "T", "X", "T">> >>

ValidatorEventTexts ==
  EventTexts
  \cup { Labelled(<<"T", "i", "t", "l", "e">>, <<"a">>) \o NL \o Labelled(<<"D", "a", "t", "e">>, d_jan5) \o NL
            \o Labelled(<<"L", "o", "c", "a", "t", "i", "o", "n">>, <<"a">>) \o NL
            \o Labelled(<<"D", "e", "s", "c", "r", "i", "p", "t", "i", "o", "n">>, <<"a">>),
          Labelled(<<"T", "i", "m", "e">>, <<"2", "5", ":", "0", "0">>) }

ValidatorLinkTexts ==
  LinkTexts
  \cup { Labelled(<<"T", "i", "t", "l", "e">>, <<"a">>) \o NL \o Labelled(<<"U", "R", "L">>, u_http) \o NL
            \o Labelled(<<"D", "e", "s", "c", "r", "i", "p", "t", "i", "o", "n">>, <<"a">>),
          <<"U", "R", "L", ":">> \o NL \o u_http,
          <<"U", "R", "L", ":">> \o NL \o <<"U", "R", "L", ":">>,
          Labelled(<<"L", "i", "n", "k">>, <<"H", "T", "T", "P", "S", ":", "/", "/", "a">>) }

ValidatorEventDirs ==
  { Dir(d) : d \in DirsOver(FirstN(ValidatorTxtNames, MaxTxtFiles), ValidatorEventTexts) }

ValidatorLinkDirs ==
  { Dir(d) : d \in DirsOver(FirstN(ValidatorTxtNames, MaxTxtFiles), ValidatorLinkTexts) }

NewsNamePool == << n_dated_json, <<"b", ".", "j", "s", "o", "n">>, <<"a", ".", "j", "s", "o", "n">>, <<"c", ".", "j", "s", "o", "n">> >>

NewsObjects ==
  { JObj([id |-> x_id, title |-> <<"a">>, date |-> d_jan5, type |-> <<"i", "d", "e", "a", "s">>,
          summary |-> <<"a">>, body |-> <<"a">>]),
    JObj([id |-> x_id, title |-> <<"a">>, date |-> d_jan5, type |-> <<"b", "l", "o", "g">>]),
    JObj([id |-> <<"y">>, title |-> <<"a">>, date |-> d_tbd, thumb |-> u_ftp]) }

NewsDirs ==
  { Dir(d) : d \in DirsOver(FirstN(NewsNamePool, MaxJsonFiles), NewsObjects \cup {JBad, JNull}) }

ValidatorMetaNames == << <<"b", ".", "j", "s", "o", "n">>, <<"x", ".", "j", "s", "o", "n">>, <<"A", ".", "J", "S", "O", "N">>, <<"c", ".", "j", "s", "o", "n">> >>

ValidatorMetaContents ==
  MetaContents
  \cup { JObj([id |-> x_id, image |-> u_http,
               tags |-> [isArray |-> FALSE, items |-> << <<"t">> >>]]),
          JNum }

ValidatorMetaDirs ==
  { Dir(d) : d \in DirsOver(FirstN(ValidatorMetaNames, MaxJsonFiles), ValidatorMetaContents) }

\* the working trees the validator runs on: one section varies, the others are fixed
ValidateTrees ==
  { MkTree(ev, BaseLinks, NoNews, BaseMeta, Absent, BaseImages) :
      ev \in ValidatorEventDirs \cup {Absent, NotADir} }
  \cup { MkTree(BaseEvents, lk, NoNews, BaseMeta, Absent, BaseImages) :
           lk \in ValidatorLinkDirs \cup {Absent} }
  \cup { MkTree(BaseEvents, BaseLinks, nw, BaseMeta, Absent, BaseImages) :
           nw \in NewsDirs \cup {NotADir} }
  \cup { MkTree(BaseEvents, BaseLinks, NoNews, gm, Absent, BaseImages) :
           gm \in ValidatorMetaDirs \cup {Absent} }
  \cup { MkTree(BaseEvents, BaseLinks, NoNews, BaseMeta, Absent, {}) }

----------------------------------------------------------------------------
(* The build script: build-data.mjs 197-200 calls the four builders in     *)
(* order; an uncaught exception ends the process with status 1.            *)

StartBuild ==
  /\ pc \in {"idle", "exit"}
  /\ runs < MaxRuns
  /\ pc' = "buildEvents"
  /\ runs' = runs + 1
  /\ readLog' = {}
  /\ exitCode' = -1
  /\ UNCHANGED <<tree, data, errors, warnings, gitStatus, arg, ret>>
  /\ UNCHANGED <<browser, written>>

buildEvents ==
  /\ pc = "buildEvents"
  /\ IF tree.events.kind # "dir"
       THEN \* readdirSync throws ENOENT or ENOTDIR
            /\ pc' = "exit" /\ exitCode' = 1
            /\ UNCHANGED <<data, readLog>>
       ELSE /\ data' = [data EXCEPT !.events = writeFileSync(@, Doc(EventItems(tree.events)))]
            /\ readLog' = readLog \cup {"content/events"}
            /\ pc' = "buildLinks"
            /\ UNCHANGED exitCode
  /\ UNCHANGED <<tree, runs, errors, warnings, gitStatus, arg, ret>>
  /\ UNCHANGED <<browser, written>>

buildLinks ==
  /\ pc = "buildLinks"
  /\ IF tree.links.kind # "dir"
       THEN /\ pc' = "exit" /\ exitCode' = 1
            /\ UNCHANGED <<data, readLog>>
       ELSE /\ data' = [data EXCEPT !.links = writeFileSync(@, Doc(LinkItems(tree.links)))]
            /\ readLog' = readLog \cup {"content/links"}
            /\ pc' = "normalizeGallery"
            /\ UNCHANGED exitCode
  /\ UNCHANGED <<tree, runs, errors, warnings, gitStatus, arg, ret>>
  /\ UNCHANGED <<browser, written>>

normalizeGallery ==
  /\ pc = "normalizeGallery"
  /\ LET src == GallerySource(tree)
         items == sortNewestFirst(src.items)
     IN  /\ readLog' = readLog \cup src.read
         /\ IF GalleryThrows(items)
              THEN /\ pc' = "exit" /\ exitCode' = 1
                   /\ UNCHANGED data
              ELSE /\ data' = [data EXCEPT !.gallery =
                                 writeFileSync(@, Doc([i \in 1..Len(items) |-> NormItem(items[i])]))]
                   /\ pc' = "buildMapsPlaceholder"
                   /\ UNCHANGED exitCode
  /\ UNCHANGED <<tree, runs, errors, warnings, gitStatus, arg, ret>>
  /\ UNCHANGED <<browser, written>>

buildMapsPlaceholder ==
  /\ pc = "buildMapsPlaceholder"
  /\ data' = [data EXCEPT !.maps = mapsAfter(@)]
  /\ pc' = "exit"
  /\ exitCode' = 0
  /\ UNCHANGED <<tree, runs, readLog, errors, warnings, gitStatus, arg, ret>>
  /\ UNCHANGED <<browser, written>>

BuildInit ==
  /\ tree \in BuildTrees
  /\ data \in {NoData, [NoData EXCEPT !.maps = CustomMaps]}
  /\ pc = "idle"
  /\ runs = 0
  /\ readLog = {}
  /\ errors = <<>>
  /\ warnings = <<>>
  /\ exitCode = -1
  /\ gitStatus = <<>>
  /\ arg = <<>>
  /\ ret = <<>>
  /\ browser = NoBrowser
  /\ written = NoFiles

BuildNext == StartBuild \/ buildEvents \/ buildLinks \/ normalizeGallery \/ buildMapsPlaceholder

BuildSpec == BuildInit /\ [][BuildNext]_vars

----------------------------------------------------------------------------
(* Properties of the builders.                                             *)

SortKeysAscending(items) ==
  \A i, j \in 1..Len(items) : i < j => localeCompare(items[i].sortKey, items[j].sortKey) <= 0

\* C1 as claimed: in events.json the sortKey values are non-decreasing by index, and
\* every event without a date comes after every event with a date, whatever text
\* the date holds.
C1_AsClaimed ==
  data.events.kind = "file" =>
    LET items == data.events.items
    IN  /\ SortKeysAscending(items)
        /\ \A i, j \in 1..Len(items) :
             items[i].date = <<>> /\ items[j].date # <<>> => j < i

\* C1 amended: in events.json the sortKey values are non-decreasing by index (in
\* localeCompare order), and every event without a date comes after every event
\* whose date is a YYYY-MM-DD text before 9999-12-31.
C1_SortInvariant ==
  data.events.kind = "file" =>
    LET items == data.events.items
    IN  /\ SortKeysAscending(items)
        /\ \A i, j \in 1..Len(items) :
             /\ items[i].date = <<>>
             /\ MatchesDateShape(items[j].date)
             /\ CodeUnitCompare(items[j].date, SENTINEL_DATE) < 0
             => j < i

\* an undated event whose file name sorts first was moved behind a dated one
C1_Witness ==
  /\ data.events.kind = "file"
  /\ \E i, j \in 1..Len(data.events.items) :
       LET items == data.events.items
       IN  /\ i < j
           /\ MatchesDateShape(items[i].date)
           /\ items[j].date = <<>>
           /\ CodeUnitCompare(items[j].id, items[i].id) < 0

\* C2: a second run of the builders on unchanged sources leaves every output file
\* as the first run left it: no step of a run after the first changes a file.
C2_Idempotent == [][runs >= 2 => data' = data]_vars

\* two runs have completed and events.json holds two items with equal sort keys
C2_Witness ==
  /\ runs = 2 /\ pc = "exit" /\ exitCode = 0
  /\ \E i, j \in 1..Len(data.events.items) :
       i # j /\ data.events.items[i].sortKey = data.events.items[j].sortKey

\* normalizeGallery has run in the current run
GalleryRan ==
  \/ pc = "buildMapsPlaceholder"
  \/ pc = "exit" /\ "content/links" \in readLog

MetaObjects(t) ==
  { t.galleryMeta.files[f] :
      f \in { g \in DOMAIN t.galleryMeta.files :
                EndsWith(ToLowerCase(g), EXT_JSON) /\ t.galleryMeta.files[g].kind = "obj" } }

IndexItems(t) ==
  IF t.galleryIndex.kind = "file" /\ t.galleryIndex.json.kind = "index"
    THEN { t.galleryIndex.json.items[i] : i \in 1..Len(t.galleryIndex.json.items) }
    ELSE {}

ItemsComeFrom(doc, values) ==
  \A i \in 1..Len(doc.items) : \E v \in values : doc.items[i] = NormItem(v)

\* C7 as claimed: with gallery/meta a directory every item comes from a meta file
\* and gallery/index.json is not consulted; the index is consulted only if
\* gallery/meta does not exist.
C7_AsClaimed ==
  GalleryRan =>
    /\ tree.galleryMeta.kind = "dir" =>
         /\ "gallery/index.json" \notin readLog
         /\ data.gallery.kind = "file" /\ ItemsComeFrom(data.gallery, MetaObjects(tree))
    /\ "gallery/index.json" \in readLog => tree.galleryMeta.kind = "absent"

\* C7 amended: with gallery/meta a directory every item comes from a meta file and
\* gallery/index.json is not consulted; the index is consulted, and the items come
\* from its items array, only if gallery/meta does not exist as a directory.
C7_OneInputShape ==
  GalleryRan =>
    /\ tree.galleryMeta.kind = "dir" =>
         /\ "gallery/index.json" \notin readLog
         /\ data.gallery.kind = "file" /\ ItemsComeFrom(data.gallery, MetaObjects(tree))
    /\ "gallery/index.json" \in readLog =>
         /\ tree.galleryMeta.kind # "dir"
         /\ "gallery/meta" \notin readLog
         /\ data.gallery.kind = "file" => ItemsComeFrom(data.gallery, IndexItems(tree))

\* gallery/meta is a directory with no usable file, a legacy index with items
\* exists, and the gallery was written without an item
C7_Witness ==
  /\ GalleryRan
  /\ tree.galleryMeta.kind = "dir" /\ MetaObjects(tree) = {}
  /\ IndexItems(tree) # {}
  /\ data.gallery.kind = "file" /\ data.gallery.items = <<>>

\* the image the claim expects for a source image
ExpectedImage(src) ==
  LET t == Trim(src)
  IN  IF StartsWith(t, IMAGES_SLASH) THEN GALLERY_SLASH \o t ELSE t

IsHttpUrl(t) == StartsWith(t, HTTP) \/ StartsWith(t, HTTPS)

\* out is the item the claim expects for the source value v
RewrittenFrom(out, v) ==
  LET it == IF v.kind = "obj" THEN v.val ELSE <<>>
      src == IF "image" \in DOMAIN it THEN it["image"] ELSE <<>>
  IN  /\ DOMAIN out = DOMAIN it \cup {"image"}
      /\ out["image"] = ExpectedImage(src)
      /\ IsHttpUrl(Trim(src)) \/ StartsWith(Trim(src), GALLERY_SLASH) => out["image"] = Trim(src)
      /\ \A k \in DOMAIN it \ {"image"} : out[k] = it[k]

\* C8: every item of gallery.json is its source item with the image trimmed and
\* 'gallery/' prepended iff the trimmed image starts with 'images/' (a URL or a
\* 'gallery/' path gets no prefix); every other field is copied unchanged.
C8_ImageRewrite ==
  data.gallery.kind = "file" =>
    LET src == sortNewestFirst(GallerySource(tree).items)
    IN  /\ Len(data.gallery.items) = Len(src)
        /\ \A i \in 1..Len(src) : RewrittenFrom(data.gallery.items[i], src[i])

\* gallery.json holds a rewritten images/ path, an unprefixed URL and other fields
C8_Witness ==
  /\ data.gallery.kind = "file"
  /\ \E i, j \in 1..Len(data.gallery.items) :
       /\ data.gallery.items[i]["image"] = GALLERY_SLASH \o img_rel
       /\ data.gallery.items[j]["image"] = u_http
       /\ "date" \in DOMAIN data.gallery.items[j]

\* C9: buildMapsPlaceholder changes maps.json only when it does not exist, and then
\* writes the placeholder; an existing maps.json is never changed.
C9_MapsSeedOnly ==
  [][data'.maps # data.maps => data.maps.kind = "absent" /\ data'.maps = MapsExample]_vars

\* two complete runs have left a maps.json that existed before the first as it was
C9_Witness ==
  /\ runs = 2 /\ pc = "exit" /\ exitCode = 0
  /\ data.maps = CustomMaps

----------------------------------------------------------------------------
(* isIsoDate as a function of its argument.                                *)

Idle ==
  /\ tree = MkTree(Absent, Absent, Absent, Absent, Absent, {})
  /\ data = NoData
  /\ runs = 0
  /\ readLog = {}
  /\ errors = <<>>
  /\ warnings = <<>>
  /\ exitCode = -1
  /\ gitStatus = <<>>
  /\ browser = NoBrowser
  /\ written = NoFiles

YearTexts == { <<"2", "0", "2", "3">>, <<"2", "0", "2", "4">>, <<"1", "9", "0", "0">>,
               <<"2", "0", "0", "0">>, <<"0", "0", "0", "0">> }
MonthTexts == { <<"0", "0">>, <<"0", "1">>, <<"0", "2">>, <<"0", "4">>, <<"1", "2">>,
                <<"1", "3">> }
DayTexts == { <<"0", "0">>, <<"0", "1">>, <<"2", "8">>, <<"2", "9">>, <<"3", "0">>,
              <<"3", "1">>, <<"3", "2">> }
Paddings == { <<<<>>, <<>>>>, <<<<" ">>, <<>>>>, <<<<>>, <<" ", "\n">>>> }

DateInputs ==
  { pad[1] \o y \o <<"-">> \o m \o <<"-">> \o d \o pad[2] :
      y \in YearTexts, m \in MonthTexts, d \in DayTexts, pad \in Paddings }
  \cup { <<>>, d_tbd, <<"2", "0", "2", "4", "-", "2", "-", "2", "9">>,
         <<"2", "0", "2", "4", "/", "0", "2", "/", "2", "9">>,
         <<"2", "0", "2", "4", "0", "2", "2", "9">>,
         d_jan5 \o <<"T">>, <<"x">> \o d_jan5, <<"2", "0", "2", "4", "-", "0", "1", "-", " ", "5">> }

CallIsIsoDate ==
  /\ pc = "call"
  /\ ret' = isIsoDate(arg)
  /\ pc' = "return"
  /\ UNCHANGED <<tree, data, runs, readLog, errors, warnings, exitCode, gitStatus, arg>>
  /\ UNCHANGED <<browser, written>>

DateInit == Idle /\ pc = "call" /\ arg \in DateInputs /\ ret = FALSE

DateSpec == DateInit /\ [][CallIsIsoDate]_vars

IsLeapYear(y) == y % 4 = 0 /\ (y % 100 # 0 \/ y % 400 = 0)

DaysInMonth(y, m) ==
  IF m = 2 THEN (IF IsLeapYear(y) THEN 29 ELSE 28)
  ELSE IF m \in {4, 6, 9, 11} THEN 30 ELSE 31

\* v is four digits, hyphen, two digits, hyphen, two digits and names a real date
IsRealCalendarDate(v) ==
  /\ MatchesDateShape(v)
  /\ LET y == ToNumber(SubSeq(v, 1, 4))
         m == ToNumber(SubSeq(v, 6, 7))
         d == ToNumber(SubSeq(v, 9, 10))
     IN  m \in 1..12 /\ d \in 1..DaysInMonth(y, m)

\* C10 as claimed: isIsoDate(s) is true iff s itself has the date shape and names a
\* real calendar date.
C10_AsClaimed == pc = "return" => (ret <=> IsRealCalendarDate(arg))

\* C10 amended: isIsoDate(s) is true iff s, with leading and trailing white space
\* removed, has the date shape and names a real calendar date.
C10_IsoDate == pc = "return" => (ret <=> IsRealCalendarDate(Trim(arg)))

\* 29 February of a leap year was accepted
C10_Witness ==
  /\ pc = "return" /\ ret
  /\ arg = <<"2", "0", "2", "4", "-", "0", "2", "-", "2", "9">>

\* 29 February of a year that is no leap year was rejected
C10_WitnessRejected ==
  /\ pc = "return" /\ ~ret
  /\ arg = <<"1", "9", "0", "0", "-", "0", "2", "-", "2", "9">>

----------------------------------------------------------------------------
(* resolveGalleryImage as a function of its argument.                      *)

RefPrefixes ==
  { <<>>, HTTP, HTTPS, <<"H", "T", "T", "P", ":", "/", "/">>, IMAGES_SLASH,
    GALLERY_IMAGES_SLASH, GALLERY_SLASH, <<"o", "/">>, <<"i", "m", "a", "g", "e", "s", "\\">>,
    <<"g", "a", "l", "l", "e", "r", "y">> }

RefRests ==
  { <<>>, <<"p", ".", "j", "p", "g">>, <<"a", "/", "p", ".", "j", "p", "g">>,
    <<".", ".", "/", "p", ".", "j", "p", "g">> }

RefPaddings == { <<<<>>, <<>>>>, <<<<" ">>, <<>>>>, <<<<>>, <<" ">>>> }

ImageRefs ==
  { pad[1] \o pre \o rest \o pad[2] : pre \in RefPrefixes, rest \in RefRests, pad \in RefPaddings }

CallResolveGalleryImage ==
  /\ pc = "call"
  /\ ret' = resolveGalleryImage(arg)
  /\ pc' = "return"
  /\ UNCHANGED <<tree, data, runs, readLog, errors, warnings, exitCode, gitStatus, arg>>
  /\ UNCHANGED <<browser, written>>

ResolveInit ==
  Idle /\ pc = "call" /\ arg \in ImageRefs /\ ret = Resolved("null", <<>>, 155)

ResolveSpec == ResolveInit /\ [][CallResolveGalleryImage]_vars

\* the number (1..7) of the first rule of the claim's list that v matches, the http
\* rule matching the scheme as the predicate httpRule says
FirstRule(v, httpRule(_)) ==
  IF v = <<>> THEN 1
  ELSE IF httpRule(v) THEN 2
  ELSE IF StartsWith(v, IMAGES_SLASH) THEN 3
  ELSE IF StartsWith(v, GALLERY_IMAGES_SLASH) THEN 4
  ELSE IF StartsWith(v, GALLERY_SLASH) THEN 5
  ELSE IF ~Includes(v, "/") /\ ~Includes(v, "\\") THEN 6
  ELSE 7

\* r is what rule n of the claim's list gives for the reference v
IsRuleResult(r, n, v) ==
  CASE n = 1 -> r.kind = "null"
    [] n = 2 -> r.kind = "url" /\ r.value = v
    [] n = 3 -> r.kind = "file" /\ r.value = pathJoin(galleryImages, Slice(v, Len(IMAGES_SLASH)))
    [] n = 4 -> /\ r.kind = "file"
                /\ r.value = pathJoin(galleryImages, Slice(v, Len(GALLERY_IMAGES_SLASH)))
    [] n = 5 -> r.kind = "file" /\ r.value = pathJoin(ROOT, v)
    [] n = 6 -> r.kind = "file" /\ r.value = pathJoin(galleryImages, v)
    [] n = 7 -> r.kind = "file" /\ r.value = pathJoin(ROOT, v)

\* C6 as claimed: the result is that of the first matching rule, the rules applied
\* to the reference as given and the http rule to the prefixes http:// and https://.
C6_AsClaimed ==
  pc = "return" =>
    /\ IsRuleResult(ret, FirstRule(arg, IsHttpUrl), arg)
    /\ StartsWith(arg, GALLERY_IMAGES_SLASH) => ret.line # 168

\* C6 amended: with v the reference without its leading and trailing white space,
\* the result is that of the first matching rule applied to v, where the http rule
\* matches the scheme in any letter case and its value is v; a gallery/images/
\* reference is never resolved by the gallery/ rule.
C6_FirstRuleWins ==
  LET v == Trim(arg)
  IN  pc = "return" =>
        /\ IsRuleResult(ret, FirstRule(v, HasHttpScheme), v)
        /\ StartsWith(v, GALLERY_IMAGES_SLASH) => ret.line # 168

\* a gallery/images/ reference was resolved under the gallery images root
C6_Witness ==
  /\ pc = "return"
  /\ arg = GALLERY_IMAGES_SLASH \o <<"p", ".", "j", "p", "g">>
  /\ ret.kind = "file"
  /\ ret.value = galleryImages \o << <<"p", ".", "j", "p", "g">> >>

----------------------------------------------------------------------------
(* The drift checker: verify-generated.mjs 1-41.                           *)
(* gitStatus is what `git status --porcelain` answers after the rebuild:   *)
(* [ok |-> FALSE] when git fails (no repository), else the entries it      *)
(* lists, each [xy |-> the two status characters, orig |-> the old path of *)
(* a rename or '', path |-> the path].                                     *)

\* the most entries in a git status listing
MaxStatusLines == 2

p_data_e == DATA_SLASH \o <<"e">>
p_data_l == DATA_SLASH \o <<"l">>
p_readme == <<"a", ".", "m", "d">>
p_nested == <<"x", "/">> \o DATA_SLASH \o <<"e">>

StatusEntry(xy, orig, path) == [xy |-> xy, orig |-> orig, path |-> path]

StatusEntries ==
  { StatusEntry(<<" ", "M">>, <<>>, p_data_e),
    StatusEntry(<<"M", " ">>, <<>>, p_data_l),
    StatusEntry(<<"?", "?">>, <<>>, DATA_SLASH),
    StatusEntry(<<" ", "M">>, <<>>, p_readme),
    StatusEntry(<<"A", " ">>, <<>>, p_nested),
    StatusEntry(<<"R", " ">>, p_readme, p_data_e) }

\* the listings of at most n entries, no entry twice
RECURSIVE Listings(_)
Listings(n) ==
  IF n = 0 THEN { <<>> }
  ELSE LET shorter == Listings(n - 1)
       IN  shorter \cup { Append(l, e) : l \in { k \in shorter : Len(k) = n - 1 },
                                          e \in StatusEntries }

DistinctEntries(l) == \A i, j \in 1..Len(l) : i # j => l[i].path # l[j].path

\* the text git prints: one line "XY path" or "XY old -> new" per entry
RECURSIVE Porcelain(_)
Porcelain(entries) ==
  IF entries = <<>> THEN <<>>
  ELSE LET e == Head(entries)
       IN  e.xy \o <<" ">> \o (IF e.orig # <<>> THEN e.orig \o ARROW ELSE <<>>) \o e.path
             \o NL \o Porcelain(Tail(entries))

\* l.replace(/^..\s+/, ''): two characters and the white space after them removed
StripStatus(l) ==
  IF Len(l) >= 3 /\ l[1] \notin {"\n", "\r"} /\ l[2] \notin {"\n", "\r"} /\ IsSpace(l[3])
    THEN TrimStart(Slice(l, 2)) ELSE l

\* p.includes(' -> ') ? p.split(' -> ').pop() : p
RenameTarget(path) ==
  LET parts == Split(path, ARROW)
  IN  parts[Len(parts)]

\* read(cmd): the command's output, trimmed
readTrimmed(out) == Trim(out)

\* the paths verify-generated.mjs takes for changed (lines 25-31)
changedPaths(status) ==
  LET lines == SplitLines(status)
      kept == SelectSeq([i \in 1..Len(lines) |-> TrimEnd(lines[i])], LAMBDA l : l # <<>>)
  IN  [i \in 1..Len(kept) |-> RenameTarget(StripStatus(kept[i]))]

relevantPaths(status) == SelectSeq(changedPaths(status), LAMBDA q : StartsWith(q, DATA_SLASH))

driftExit(git) ==
  IF ~git.ok THEN 0
  ELSE LET status == readTrimmed(Porcelain(git.entries))
       IN  IF status = <<>> THEN 0
           ELSE IF relevantPaths(status) # <<>> THEN 1 ELSE 0

\* run('node scripts/build-data.mjs'): execSync throws when the build fails
runBuild ==
  /\ pc = "rebuild"
  /\ \E built \in BOOLEAN :
       IF built THEN pc' = "gitStatus" /\ UNCHANGED exitCode
       ELSE pc' = "buildFailed" /\ exitCode' = 1
  /\ UNCHANGED <<tree, data, runs, readLog, errors, warnings, gitStatus, arg, ret>>
  /\ UNCHANGED <<browser, written>>

checkStatus ==
  /\ pc = "gitStatus"
  /\ exitCode' = driftExit(gitStatus)
  /\ pc' = "exit"
  /\ UNCHANGED <<tree, data, runs, readLog, errors, warnings, gitStatus, arg, ret>>
  /\ UNCHANGED <<browser, written>>

DriftInit ==
  /\ tree = MkTree(Absent, Absent, Absent, Absent, Absent, {})
  /\ data = NoData
  /\ runs = 0
  /\ readLog = {}
  /\ errors = <<>>
  /\ warnings = <<>>
  /\ exitCode = -1
  /\ arg = <<>>
  /\ ret = <<>>
  /\ pc = "rebuild"
  /\ gitStatus \in { [ok |-> FALSE, entries |-> <<>>] }
       \cup { [ok |-> TRUE, entries |-> l] :
                l \in { k \in Listings(MaxStatusLines) : DistinctEntries(k) } }
  /\ browser = NoBrowser
  /\ written = NoFiles

DriftNext == runBuild \/ checkStatus

DriftSpec == DriftInit /\ [][DriftNext]_vars

ListsDataPath(entries) ==
  \E i \in 1..Len(entries) : StartsWith(entries[i].path, DATA_SLASH)

\* C5: after the rebuild the drift checker exits 1 whenever git lists a changed path
\* under data/, whatever its status code and position, and exits 0 when no listed
\* path starts with data/.
C5_AsClaimed ==
  pc = "exit" /\ gitStatus.ok =>
    /\ ListsDataPath(gitStatus.entries) => exitCode = 1
    /\ ~ListsDataPath(gitStatus.entries) => exitCode = 0

\* the checker exited 1 on a listing whose data/ entry is not the first line
C5_Detected ==
  /\ pc = "exit" /\ gitStatus.ok /\ exitCode = 1
  /\ Len(gitStatus.entries) = 2
  /\ ~StartsWith(gitStatus.entries[1].path, DATA_SLASH)

----------------------------------------------------------------------------
(* The validator's run (src/unnamed/part_000 402-439): the four validate    *)
(* functions in order, each appending to errors and warnings, then the      *)
(* report and the exit.  An exception nothing catches ends the process      *)
(* with status 1 before the report.                                         *)

CallValidateEvents ==
  /\ pc = "validateEvents"
  /\ \E found \in {validateEvents(tree)} :
         /\ errors' = errors \o found.errors
         /\ warnings' = warnings \o found.warnings
         /\ IF found.threw
              THEN pc' = "crashed" /\ exitCode' = 1
              ELSE pc' = "validateLinks" /\ UNCHANGED exitCode
  /\ readLog' = readLog \cup {"content/events"}
  /\ UNCHANGED <<tree, data, runs, gitStatus, arg, ret>>
  /\ UNCHANGED <<browser, written>>

CallValidateLinks ==
  /\ pc = "validateLinks"
  /\ \E found \in {validateLinks(tree)} :
         /\ errors' = errors \o found.errors
         /\ warnings' = warnings \o found.warnings
         /\ IF found.threw
              THEN pc' = "crashed" /\ exitCode' = 1
              ELSE pc' = "validateNews" /\ UNCHANGED exitCode
  /\ readLog' = readLog \cup {"content/links"}
  /\ UNCHANGED <<tree, data, runs, gitStatus, arg, ret>>
  /\ UNCHANGED <<browser, written>>

CallValidateNews ==
  /\ pc = "validateNews"
  /\ \E found \in {validateNews(tree)} :
         /\ errors' = errors \o found.errors
         /\ warnings' = warnings \o found.warnings
         /\ IF found.threw
              THEN pc' = "crashed" /\ exitCode' = 1
              ELSE pc' = "validateGallery" /\ UNCHANGED exitCode
  /\ readLog' = readLog \cup {"content/news"}
  /\ UNCHANGED <<tree, data, runs, gitStatus, arg, ret>>
  /\ UNCHANGED <<browser, written>>

CallValidateGallery ==
  /\ pc = "validateGallery"
  /\ \E found \in {validateGallery(tree)} :
         /\ errors' = errors \o found.errors
         /\ warnings' = warnings \o found.warnings
         /\ IF found.threw
              THEN pc' = "crashed" /\ exitCode' = 1
              ELSE pc' = "report" /\ UNCHANGED exitCode
  /\ readLog' = readLog \cup {"gallery/meta"}
  /\ UNCHANGED <<tree, data, runs, gitStatus, arg, ret>>
  /\ UNCHANGED <<browser, written>>

\* lines 412-439: the counts and the findings are printed, then process.exit
Report ==
  /\ pc = "report"
  /\ pc' = "exited"
  /\ exitCode' = exitStatus(errors, warnings)
  /\ UNCHANGED <<tree, data, runs, readLog, errors, warnings, gitStatus, arg, ret>>
  /\ UNCHANGED <<browser, written>>

ValidateInit ==
  /\ tree \in ValidateTrees
  /\ data = NoData
  /\ pc = "validateEvents"
  /\ runs = 0
  /\ readLog = {}
  /\ errors = <<>>
  /\ warnings = <<>>
  /\ exitCode = -1
  /\ gitStatus = <<>>
  /\ arg = <<>>
  /\ ret = <<>>
  /\ browser = NoBrowser
  /\ written = NoFiles

ValidateNext ==
  CallValidateEvents \/ CallValidateLinks \/ CallValidateNews \/ CallValidateGallery \/ Report

ValidateSpec == ValidateInit /\ [][ValidateNext]_vars

\* C3: once the validator has processed all four content kinds and exited, its
\* status is 1 if and only if at least one error was recorded, and a run that
\* recorded no error, whatever warnings it recorded, has status 0.
C3_ExitStatus ==
  pc = "exited" =>
    /\ exitCode = 1 <=> Len(errors) > 0
    /\ Len(errors) = 0 => exitCode = 0

\* a run that recorded warnings from several files and no error has exited with 0
C3_Witness ==
  /\ pc = "exited"
  /\ Len(errors) = 0
  /\ Len(warnings) >= 2
  /\ exitCode = 0

\* a run that recorded an error has exited with 1
C3_WitnessFailed ==
  /\ pc = "exited"
  /\ Len(errors) > 0
  /\ exitCode = 1

\* the id a gallery meta file resolves to, <<>> when it resolves to none
ResolvedId(d, file) ==
  IF d.files[file].kind \in {"obj", "num"} THEN galleryId(d.files[file], file) ELSE <<>>

DuplicateErrors(file) ==
  { i \in 1..Len(errors) :
      /\ errors[i].file = <<"gallery/meta", file>>
      /\ errors[i].msg = "Duplicate gallery id" }

\* the positions in the sorted listing of the files that resolve to id
SameId(files, id) == { i \in 1..Len(files) : ResolvedId(tree.galleryMeta, files[i]) = id }

\* C4 as claimed: once validateGallery has run, for every id that k >= 2 parseable
\* meta files resolve to, there is exactly one 'Duplicate gallery id' error against
\* each of those files except the first in the sorted listing, and none against
\* the first.
C4_AsClaimed ==
  ("gallery/meta" \in readLog /\ tree.galleryMeta.kind = "dir") =>
    LET files == listFiles(tree.galleryMeta, EXT_JSON)
    IN  \A i \in 1..Len(files) :
          LET group == SameId(files, ResolvedId(tree.galleryMeta, files[i]))
          IN  (ResolvedId(tree.galleryMeta, files[i]) # <<>> /\ Cardinality(group) >= 2) =>
                Cardinality(DuplicateErrors(files[i]))
                  = (IF \A j \in group : i <= j THEN 0 ELSE 1)

\* two files with the same id were both read and the second got the one error
C4_Witness ==
  /\ pc = "exited"
  /\ tree.galleryMeta.kind = "dir"
  /\ LET files == listFiles(tree.galleryMeta, EXT_JSON)
     IN  \E i, j \in 1..Len(files) :
           /\ i < j
           /\ ResolvedId(tree.galleryMeta, files[i]) # <<>>
           /\ ResolvedId(tree.galleryMeta, files[i]) = ResolvedId(tree.galleryMeta, files[j])
           /\ tree.galleryMeta.files[files[i]] # tree.galleryMeta.files[files[j]]
           /\ Cardinality(DuplicateErrors(files[i])) = 0
           /\ Cardinality(DuplicateErrors(files[j])) = 1

----------------------------------------------------------------------------
(* Properties of validateLinks, validateNews and validateGallery, read off  *)
(* the errors the run has recorded once the function has run.               *)

\* the number of errors recorded against a file of a directory with a message
ErrorCount(dir, file, msg) ==
  Cardinality({ i \in 1..Len(errors) : errors[i].file = <<dir, file>> /\ errors[i].msg = msg })

\* http:// or https://, in any letter case, then one or more characters none of
\* which is white space
IsWellFormedHttpUrl(u) ==
  \E n \in {Len(HTTP), Len(HTTPS)} :
    /\ Len(u) > n
    /\ ToLowerCase(SubSeq(u, 1, n)) \in {HTTP, HTTPS}
    /\ \A i \in (n + 1)..Len(u) : ~IsSpace(u[i])

\* the url of a link file: the URL field, else the Link field
DerivedUrl(txt) == Or(Field(parseKeyValueTxt(txt), k_url), Field(parseKeyValueTxt(txt), k_link))

LinksValidated == "content/links" \in readLog /\ tree.links.kind = "dir"

\* what the claim's rule asks of the errors of file for the url text u
UrlErrorsAsRuled(file, u) ==
  /\ u = <<>> =>
       /\ ErrorCount("content/links", file, "Missing URL") = 1
       /\ ErrorCount("content/links", file, "Invalid URL") = 0
  /\ (u # <<>> /\ ~IsWellFormedHttpUrl(u)) =>
       /\ ErrorCount("content/links", file, "Missing URL") = 0
       /\ ErrorCount("content/links", file, "Invalid URL") = 1
  /\ IsWellFormedHttpUrl(u) =>
       /\ ErrorCount("content/links", file, "Missing URL") = 0
       /\ ErrorCount("content/links", file, "Invalid URL") = 0

\* C11 as claimed: for every link file, exactly one URL error when the derived url
\* is empty (Missing URL) or non-empty and not http(s)://non-whitespace (Invalid
\* URL), never both, and none when the derived url is a well-formed http(s) URL.
C11_AsClaimed ==
  LinksValidated =>
    \A file \in DOMAIN tree.links.files :
      EndsWith(ToLowerCase(file), EXT_TXT) =>
        UrlErrorsAsRuled(file, DerivedUrl(tree.links.files[file]))

\* C11 amended: the same rule, applied to the derived url with the white space at
\* its two ends trimmed.
C11_UrlErrors ==
  LinksValidated =>
    \A file \in DOMAIN tree.links.files :
      EndsWith(ToLowerCase(file), EXT_TXT) =>
        UrlErrorsAsRuled(file, Trim(DerivedUrl(tree.links.files[file])))

\* one link file got the Missing URL error and another the Invalid URL error
C11_Witness ==
  /\ LinksValidated
  /\ \E f, g \in DOMAIN tree.links.files :
       /\ ErrorCount("content/links", f, "Missing URL") = 1
       /\ ErrorCount("content/links", g, "Invalid URL") = 1
       /\ DerivedUrl(tree.links.files[g]) = u_ftp

NewsValidated == "content/news" \in readLog /\ tree.news.kind = "dir"

\* the seven values the claim allows for the type of a news item
AllowedNewsTypes ==
  { <<"a", "n", "n", "o", "u", "n", "c", "e", "m", "e", "n", "t">>,
    <<"u", "p", "d", "a", "t", "e", "s">>,
    <<"f", "i", "e", "l", "d", "-", "n", "o", "t", "e", "s">>,
    <<"i", "n", "-", "t", "h", "e", "-", "n", "e", "w", "s">>,
    <<"i", "d", "e", "a", "s">>,
    <<"a", "d", "m", "i", "n">>,
    <<"q", "a">> }

\* a file JSON.parse accepts
IsParseable(v) == v.kind # "bad"

\* C12 as claimed: for every parseable news file there is exactly one type error
\* when its type is non-empty and not an allowed value (Invalid type), exactly one
\* when its type is missing (Missing required field type), and none when its type
\* is an allowed value.  The type is read as the validator reads it, trimmed.
C12_AsClaimed ==
  NewsValidated =>
    \A file \in DOMAIN tree.news.files :
      (EndsWith(ToLowerCase(file), EXT_JSON) /\ IsParseable(tree.news.files[file])) =>
        LET type == JText(tree.news.files[file], "type")
            invalid == ErrorCount("content/news", file, "Invalid type. Must be one of")
            missing == ErrorCount("content/news", file, "Missing required field type")
        IN  /\ (type # <<>> /\ type \notin AllowedNewsTypes) => invalid = 1 /\ missing = 0
            /\ type = <<>> => invalid = 0 /\ missing = 1
            /\ type \in AllowedNewsTypes => invalid = 0 /\ missing = 0

\* a run that read every news file recorded the one Invalid type error of a file
\* and the one Missing type error of another
C12_Witness ==
  /\ NewsValidated /\ pc = "exited"
  /\ \E f, g \in DOMAIN tree.news.files :
       /\ JText(tree.news.files[f], "type") \notin AllowedNewsTypes \cup {<<>>}
       /\ ErrorCount("content/news", f, "Invalid type. Must be one of") = 1
       /\ JText(tree.news.files[g], "type") = <<>>
       /\ ErrorCount("content/news", g, "Missing required field type") = 1

----------------------------------------------------------------------------
(* parseKeyValueTxt as a function of its argument.                         *)

MaxParseLines == 3

ParseLinePool ==
  { <<"T", "i", "t", "l", "e", ":", " ", "a">>,
    <<"t", "i", "t", "l", "e", ":", "b">>,
    <<" ", "m", "o", "r", "e", " ">>,
    <<>>,
    <<" ", " ">>,
    <<"S", "u", "b", " ", " ", "B", "y", " ", ":", " ", "c">>,
    <<"c", "o", "n", "s", "t", "r", "u", "c", "t", "o", "r", ":", " ", "x">>,
    <<"U", "R", "L", ":">>,
    <<"9", ":", " ", "x">> }

RECURSIVE Join(_, _)
Join(parts, sep) ==
  IF parts = <<>> THEN <<>>
  ELSE IF Len(parts) = 1 THEN parts[1]
  ELSE parts[1] \o sep \o Join(Tail(parts), sep)

ParseInputs ==
  { Join(ls, NL) : ls \in UNION { [1..n -> ParseLinePool] : n \in 1..MaxParseLines } }
  \cup { <<"T", "i", "t", "l", "e", ":", " ", "a", "\r", "\n", "b", "\r", "\n">>,
         <<"a", ":", " ", "b", "\r", "c">>,
         <<"a", "\r", "b", ":", " ", "c", "\r">>,
         <<"T", "i", "t", "l", "e", ":", " ", "a", "\n", "\n", "b">> }

CallParseKeyValueTxt ==
  /\ pc = "call"
  /\ ret' = parseKeyValueTxt(arg)
  /\ pc' = "return"
  /\ UNCHANGED <<tree, data, runs, readLog, errors, warnings, exitCode, gitStatus, arg>>
  /\ UNCHANGED <<browser, written>>

ParseInit == Idle /\ pc = "call" /\ arg \in ParseInputs /\ ret = <<>>

ParseSpec == ParseInit /\ [][CallParseKeyValueTxt]_vars

\* the lines of the text, by position
LineAt(txt, i) == SplitLines(txt)[i]

IsLabelLine(line) == MatchLabelLine(line).matched

IsBlankLine(line) == Trim(line) = <<>>

\* the field most recently started at line i: the key of the last label line at
\* or before i, <<>> when there is none
StartedField(txt, i) ==
  LET labels == { j \in 1..i : IsLabelLine(LineAt(txt, j)) }
  IN  IF labels = {} THEN <<>>
      ELSE NormalizeKey(MatchLabelLine(LineAt(txt,
             CHOOSE j \in labels : \A h \in labels : h <= j)).label)

\* the text line i gives to its field: the value of a label line, the trimmed text
\* of any other line
GivenText(txt, i) ==
  IF IsLabelLine(LineAt(txt, i)) THEN Trim(MatchLabelLine(LineAt(txt, i)).value)
  ELSE Trim(LineAt(txt, i))

\* the positions of the lines attributed to field k, in file order
RECURSIVE Ascending(_)
Ascending(S) ==
  IF S = {} THEN <<>>
  ELSE LET least == CHOOSE i \in S : \A j \in S : i <= j
       IN  <<least>> \o Ascending(S \ {least})

AttributedLines(txt, k) ==
  Ascending({ i \in 1..Len(SplitLines(txt)) :
                /\ StartedField(txt, i) = k
                /\ IsLabelLine(LineAt(txt, i)) \/ ~IsBlankLine(LineAt(txt, i)) })

JoinedValue(txt, k) ==
  Join([n \in 1..Len(AttributedLines(txt, k)) |-> GivenText(txt, AttributedLines(txt, k)[n])], NL)

\* C13 as claimed: the value parseKeyValueTxt returns for a field is the values of
\* its label lines and its continuation lines (the non-blank lines that are no
\* label line, each trimmed, going to the most recently started field), in file
\* order, joined by a newline; a repeated label appends.
C13_AsClaimed ==
  pc = "return" => \A k \in DOMAIN ret : ret[k] = JoinedValue(arg, k)

\* a repeated label and a continuation line were appended to the first value
C13_Witness ==
  /\ pc = "return"
  /\ arg = Join(<<<<"T", "i", "t", "l", "e", ":", " ", "a">>, <<" ", "m", "o", "r", "e", " ">>, <<"t", "i", "t", "l", "e", ":", "b">>>>, NL)
  /\ ret = (k_title :> <<"a", "\n", "m", "o", "r", "e", "\n", "b">>)

\* a label as the claim normalizes it: trimmed, lower-cased, each run of white space
\* replaced by one underscore
ClaimedKey(label) ==
  LET t == ToLowerCase(Trim(label))
      kept == Ascending({ i \in 1..Len(t) : ~(IsSpace(t[i]) /\ i > 1 /\ IsSpace(t[i - 1])) })
  IN  [n \in 1..Len(kept) |-> IF IsSpace(t[kept[n]]) THEN "_" ELSE t[kept[n]]]

LabelKeys(txt) ==
  { ClaimedKey(MatchLabelLine(LineAt(txt, i)).label) :
      i \in { j \in 1..Len(SplitLines(txt)) : IsLabelLine(LineAt(txt, j)) } }

\* the lines left when the blank lines and the lines before the first label line
\* that are no label line are taken out
LinesThatCount(txt) ==
  LET kept == Ascending({ i \in 1..Len(SplitLines(txt)) :
                            /\ ~IsBlankLine(LineAt(txt, i))
                            /\ StartedField(txt, i) # <<>> })
  IN  [n \in 1..Len(kept) |-> LineAt(txt, kept[n])]

\* C14: parseKeyValueTxt returns a mapping from keys to strings for every text; its
\* keys are exactly the normalized labels of the label lines of the text; and the
\* blank lines and the non-label lines before the first label line contribute
\* nothing: the result is the result for the text without them.
C14_ParserTotal ==
  pc = "return" =>
    /\ DOMAIN ret = LabelKeys(arg)
    /\ \A k \in DOMAIN ret : ret[k] \in Seq(Alphabet)
    /\ ret = ParseLines(LinesThatCount(arg), <<>>, <<>>)

\* a text starting with a line that is no label line and a blank line, then a label
\* with inner white space, gave the one field of the label
C14_Witness ==
  /\ pc = "return"
  /\ arg = Join(<<<<" ", "m", "o", "r", "e", " ">>, <<>>, <<"S", "u", "b", " ", " ", "B", "y", " ", ":", " ", "c">>>>, NL)
  /\ ret = (<<"s", "u", "b", "_", "b", "y">> :> <<"c">>)

\* a text without any label line gave the empty mapping
C14_WitnessNoLabel ==
  /\ pc = "return" /\ ret = <<>>
  /\ arg = Join(<<<<" ", "m", "o", "r", "e", " ">>, <<"9", ":", " ", "x">>>>, NL)

----------------------------------------------------------------------------
(* The fields the validator derives against the fields the builders write. *)

\* the item events.json or links.json holds for a source file
ItemOf(doc, file) == doc.items[CHOOSE i \in 1..Len(doc.items) : doc.items[i].id = file]

TxtFiles(dir) == { f \in DOMAIN dir.files : EndsWith(ToLowerCase(f), EXT_TXT) }

EventsWritten == data.events.kind = "file" /\ tree.events.kind = "dir"
LinksWritten == data.links.kind = "file" /\ tree.links.kind = "dir"
GalleryWritten == data.gallery.kind = "file" /\ tree.galleryMeta.kind = "dir"

\* the meta files normalizeGallery takes an item from
MetaFilesBuilt(t) ==
  { f \in DOMAIN t.galleryMeta.files :
      EndsWith(ToLowerCase(f), EXT_JSON) /\ t.galleryMeta.files[f].kind = "obj" }

\* the items of gallery.json written for a meta file: those holding the file's
\* fields, the image apart
WrittenFor(obj) ==
  { data.gallery.items[i] : i \in { j \in 1..Len(data.gallery.items) :
      \A k \in (DOMAIN obj.val \cup DOMAIN data.gallery.items[j]) \ {"image"} :
        /\ k \in DOMAIN obj.val /\ k \in DOMAIN data.gallery.items[j]
        /\ data.gallery.items[j][k] = obj.val[k] } }

SameEventFields(v, item, names) == \A n \in names : v[n] = item[n]

C15_WitnessGallery ==
  /\ GalleryWritten
  /\ \E f, g \in MetaFilesBuilt(tree) :
       /\ "id" \notin DOMAIN tree.galleryMeta.files[f].val
       /\ JGet(tree.galleryMeta.files[g], "image") = img_rel

----------------------------------------------------------------------------
(* A malformed JSON file and the files around it.                          *)

GalleryValidated == "gallery/meta" \in readLog /\ tree.galleryMeta.kind = "dir"

\* the .json files of a directory JSON.parse rejects
MalformedFiles(d) ==
  { f \in DOMAIN d.files : EndsWith(ToLowerCase(f), EXT_JSON) /\ d.files[f].kind = "bad" }

Without(d, f) == Dir([g \in DOMAIN d.files \ {f} |-> d.files[g]])

\* the findings of a list recorded in directory dir for files other than f
OfOthers(findings, dir, f) ==
  SelectSeq(findings, LAMBDA x : x.file[1] = dir /\ x.file[2] # f)

OfFile(findings, dir, f) == SelectSeq(findings, LAMBDA x : x.file = <<dir, f>>)

\* C16 as claimed: a malformed news or gallery file gets exactly one error, and the
\* errors and warnings of the other files of its directory are those the validator
\* records when the malformed file is not in the directory.
C16_AsClaimed ==
  /\ (NewsValidated /\ pc # "validateNews") =>
       \A f \in MalformedFiles(tree.news) :
         /\ Len(OfFile(errors, "content/news", f)) = 1
         /\ OfOthers(errors, "content/news", f)
              = validateNews([tree EXCEPT !.news = Without(@, f)]).errors
         /\ OfOthers(warnings, "content/news", f)
              = validateNews([tree EXCEPT !.news = Without(@, f)]).warnings
  /\ (GalleryValidated /\ pc # "validateGallery") =>
       \A f \in MalformedFiles(tree.galleryMeta) :
         /\ Len(OfFile(errors, "gallery/meta", f)) = 1
         /\ OfOthers(errors, "gallery/meta", f)
              = validateGallery([tree EXCEPT !.galleryMeta = Without(@, f)]).errors
         /\ OfOthers(warnings, "gallery/meta", f)
              = validateGallery([tree EXCEPT !.galleryMeta = Without(@, f)]).warnings

\* a run read a malformed gallery file, recorded its one error, and recorded a
\* duplicate id between the files before and after it
C16_Witness ==
  /\ GalleryValidated /\ pc = "exited"
  /\ \E f \in MalformedFiles(tree.galleryMeta) :
       /\ Len(OfFile(errors, "gallery/meta", f)) = 1
       /\ \E i \in 1..Len(errors) :
            /\ errors[i].msg = "Duplicate gallery id"
            /\ CodeUnitCompare(f, errors[i].file[2]) < 0

----------------------------------------------------------------------------
(* The order of gallery.json.                                              *)

\* the key of a written gallery item: its date when non-empty, else its id, else ""
WrittenKey(item) ==
  IF "date" \in DOMAIN item /\ item["date"] # <<>> THEN item["date"]
  ELSE IF "id" \in DOMAIN item /\ item["id"] # <<>> THEN item["id"]
  ELSE <<>>

\* C17: in the gallery.json normalizeGallery writes, the key of each item is greater
\* than or equal to the key of the item after it, in the order of localeCompare.
C17_NewestFirst ==
  data.gallery.kind = "file" =>
    \A i \in 1..(Len(data.gallery.items) - 1) :
      localeCompare(WrittenKey(data.gallery.items[i]),
                    WrittenKey(data.gallery.items[i + 1])) >= 0

\* gallery.json holds two items from gallery/meta with different keys, the item of
\* the file read second first
C17_Witness ==
  /\ GalleryWritten /\ Len(data.gallery.items) = 2
  /\ localeCompare(WrittenKey(data.gallery.items[1]), WrittenKey(data.gallery.items[2])) > 0
  /\ LET files == listNames(tree.galleryMeta, EXT_JSON, "codeUnit")
     IN  /\ Len(files) = 2
         /\ data.gallery.items[1] = NormItem(tree.galleryMeta.files[files[2]])
         /\ data.gallery.items[2] = NormItem(tree.galleryMeta.files[files[1]])
         /\ data.gallery.items[1] # data.gallery.items[2]

----------------------------------------------------------------------------
(* The id of a gallery item built from a metadata file.                    *)

HasBodyId(obj) == "id" \in DOMAIN obj.val /\ obj.val["id"] # <<>>

\* C18 as claimed: every item of gallery.json built from a gallery/meta file has an
\* id: the id of the JSON body, or the stem of the file's name when the body has no
\* id.
C18_AsClaimed ==
  GalleryWritten =>
    \A f \in MetaFilesBuilt(tree) :
      LET obj == tree.galleryMeta.files[f]
      IN  /\ WrittenFor(obj) # {}
          /\ \A item \in WrittenFor(obj) :
               /\ "id" \in DOMAIN item
               /\ item["id"] = IF HasBodyId(obj) THEN obj.val["id"] ELSE StripExt(f, EXT_JSON)

\* gallery.json holds the item of a meta file whose body gives the id x
C18_Witness ==
  /\ GalleryWritten
  /\ \E f \in MetaFilesBuilt(tree) :
       /\ HasBodyId(tree.galleryMeta.files[f])
       /\ \E item \in WrittenFor(tree.galleryMeta.files[f]) :
            "id" \in DOMAIN item /\ item["id"] = x_id

\* gallery.json holds an item without an id, built from a meta file without one
C18_WitnessNoId ==
  /\ GalleryWritten
  /\ \E f \in MetaFilesBuilt(tree) :
       /\ ~HasBodyId(tree.galleryMeta.files[f])
       /\ \E item \in WrittenFor(tree.galleryMeta.files[f]) : "id" \notin DOMAIN item

----------------------------------------------------------------------------
(* One event item per source file.                                         *)

\* C19: the events.json buildEvents writes holds exactly one item for each .txt
\* file of content/events (the extension in any letter case), the id of the item
\* is the name of the file, and no two items have the same id.
C19_OneItemPerFile ==
  EventsWritten =>
    LET items == data.events.items
    IN  /\ Len(items) = Cardinality(TxtFiles(tree.events))
        /\ \A f \in TxtFiles(tree.events) :
             Cardinality({ i \in 1..Len(items) : items[i].id = f }) = 1
        /\ \A i, j \in 1..Len(items) : items[i].id = items[j].id => i = j

\* events.json was written from a directory of two .txt files, one with an
\* upper-case extension, and a file of another kind
C19_Witness ==
  /\ EventsWritten
  /\ Cardinality(TxtFiles(tree.events)) = 2
  /\ StrayName \in DOMAIN tree.events.files
  /\ { data.events.items[i].id : i \in 1..Len(data.events.items) }
       = {TxtNamePool[1], TxtNamePool[2]}

----------------------------------------------------------------------------
(* The image file of a gallery item.                                       *)

ImageMessages ==
  { "Missing required field image", "Invalid image value", "Invalid image URL",
    "Image file does not exist" }

ImageErrors(file) ==
  Cardinality({ i \in 1..Len(errors) :
                  errors[i].file = <<"gallery/meta", file>> /\ errors[i].msg \in ImageMessages })

\* the meta files whose image reference resolves to a local file
LocalImageFiles(t) ==
  { f \in DOMAIN t.galleryMeta.files :
      /\ EndsWith(ToLowerCase(f), EXT_JSON)
      /\ t.galleryMeta.files[f].kind = "obj"
      /\ resolveGalleryImage(GalleryFields(f, t.galleryMeta.files[f]).image).kind = "file" }

ResolvedPath(t, f) == resolveGalleryImage(GalleryFields(f, t.galleryMeta.files[f]).image).value

\* C20 as claimed: for every gallery meta file whose image reference resolves to a
\* local file, validateGallery records an image error if and only if the resolved
\* path does not exist; a reference whose file is present gets no image error.
C20_AsClaimed ==
  (GalleryValidated /\ pc # "validateGallery") =>
    \A f \in LocalImageFiles(tree) :
      (ImageErrors(f) > 0) <=> ~exists(tree, ResolvedPath(tree, f))

\* a run recorded no image error for images/p.jpg, present under gallery/images,
\* and one for q.jpg, absent
C20_Witness ==
  /\ GalleryValidated /\ pc = "exited"
  /\ \E f, g \in LocalImageFiles(tree) :
       /\ JGet(tree.galleryMeta.files[f], "image") = img_rel
       /\ exists(tree, ResolvedPath(tree, f)) /\ ImageErrors(f) = 0
       /\ JGet(tree.galleryMeta.files[g], "image") = img_bare
       /\ ~exists(tree, ResolvedPath(tree, g)) /\ ImageErrors(g) = 1

----------------------------------------------------------------------------
(* isHHmmOptional as a function of its argument.                           *)

HourTexts == { <<"0", "0">>, <<"0", "9">>, <<"2", "3">>, <<"2", "4">>, <<"9", "9">>,
               <<"9">>, <<"1", "a">>, <<"-", "1">> }
MinuteTexts == { <<"0", "0">>, <<"5", "9">>, <<"6", "0">>, <<"5">>, <<"3", "0", "0">> }

TimeInputs ==
  { pad[1] \o h \o <<":">> \o m \o pad[2] : h \in HourTexts, m \in MinuteTexts, pad \in Paddings }
  \cup { <<>>, <<" ">>, <<"\n", "\t">>, <<"0", "9", "3", "0">>, <<"0", "9", ".", "3", "0">>,
         <<"0", "9", ":", "3", "0", ":", "0", "0">>, <<"0", "9", " ", ":", "3", "0">>, d_tbd }

CallIsHHmmOptional ==
  /\ pc = "call"
  /\ ret' = isHHmmOptional(arg)
  /\ pc' = "return"
  /\ UNCHANGED <<tree, data, runs, readLog, errors, warnings, exitCode, gitStatus, arg>>
  /\ UNCHANGED <<browser, written>>

TimeInit == Idle /\ pc = "call" /\ arg \in TimeInputs /\ ret = FALSE

TimeSpec == TimeInit /\ [][CallIsHHmmOptional]_vars

\* v is two digits, a colon and two digits, the hour in 0..23 and the minute in 0..59
IsClockTime(v) ==
  /\ Len(v) = 5 /\ v[3] = ":"
  /\ \A i \in {1, 2, 4, 5} : IsDigit(v[i])
  /\ 10 * DigitVal(v[1]) + DigitVal(v[2]) \in 0..23
  /\ 10 * DigitVal(v[4]) + DigitVal(v[5]) \in 0..59

\* C21 as claimed: the time validator accepts s iff s is empty or s is exactly two
\* digits, a colon and two digits with hour in 0..23 and minute in 0..59.
C21_AsClaimed == pc = "return" => (ret <=> (arg = <<>> \/ IsClockTime(arg)))

\* C21 amended: the time validator accepts s iff s, with leading and trailing white
\* space removed, is empty or is two digits, a colon and two digits with hour in
\* 0..23 and minute in 0..59.
C21_ClockTime == pc = "return" => (ret <=> (Trim(arg) = <<>> \/ IsClockTime(Trim(arg))))

\* 23:59 was accepted
C21_Witness ==
  /\ pc = "return" /\ ret
  /\ arg = <<"2", "3", ":", "5", "9">>

\* 24:00 was rejected
C21_WitnessRejected ==
  /\ pc = "return" /\ ~ret
  /\ arg = <<"2", "4", ":", "0", "0">>

----------------------------------------------------------------------------
(* isHttpUrlRequired and isHttpUrlOptional on the same argument.            *)

SchemeTexts ==
  { HTTP, HTTPS, <<"H", "T", "T", "P", ":", "/", "/">>, <<"H", "t", "t", "p", "s", ":", "/", "/">>,
    <<"f", "t", "p", ":", "/", "/">>, <<"h", "t", "t", "p", ":", "/">>,
    <<"h", "t", "t", "p", "s", "s", ":", "/", "/">>, <<"x">> \o HTTP, <<>> }

HostTexts ==
  { <<>>, <<"a">>, <<"a", ".", "b", "/", "p", "?", "q">>, <<"a", " ", "b">>, <<"a", "\t">>,
    <<"a", "\n", "b">>, <<"/">> }

UrlInputs ==
  { pad[1] \o sch \o host \o pad[2] : sch \in SchemeTexts, host \in HostTexts, pad \in Paddings }

CallIsHttpUrlRequired ==
  /\ pc = "call"
  /\ ret' = [required |-> isHttpUrlRequired(arg)]
  /\ pc' = "callOptional"
  /\ UNCHANGED <<tree, data, runs, readLog, errors, warnings, exitCode, gitStatus, arg>>
  /\ UNCHANGED <<browser, written>>

CallIsHttpUrlOptional ==
  /\ pc = "callOptional"
  /\ ret' = [required |-> ret.required, optional |-> isHttpUrlOptional(arg)]
  /\ pc' = "return"
  /\ UNCHANGED <<tree, data, runs, readLog, errors, warnings, exitCode, gitStatus, arg>>
  /\ UNCHANGED <<browser, written>>

UrlInit == Idle /\ pc = "call" /\ arg \in UrlInputs /\ ret = <<>>

UrlNext == CallIsHttpUrlRequired \/ CallIsHttpUrlOptional

UrlSpec == UrlInit /\ [][UrlNext]_vars

\* v matches ^https?://\S+$ : the scheme in lower case, then one or more characters
\* that are no white space, to the end
MatchesClaimedPattern(v) ==
  \E n \in {Len(HTTP), Len(HTTPS)} :
    /\ Len(v) > n
    /\ SubSeq(v, 1, n) \in {HTTP, HTTPS}
    /\ \A i \in (n + 1)..Len(v) : ~IsSpace(v[i])

\* the same pattern with the scheme in any letter case
MatchesPatternAnyCase(v) ==
  \E n \in {Len(HTTP), Len(HTTPS)} :
    /\ Len(v) > n
    /\ ToLowerCase(SubSeq(v, 1, n)) \in {HTTP, HTTPS}
    /\ \A i \in (n + 1)..Len(v) : ~IsSpace(v[i])

\* C22 as claimed: isHttpUrlRequired(s) is true iff s is non-empty and matches
\* ^https?://\S+$; isHttpUrlOptional(s) is true iff s is empty or
\* isHttpUrlRequired(s) is true; the two differ only on the empty string.
C22_AsClaimed ==
  pc = "return" =>
    /\ ret.required <=> (arg # <<>> /\ MatchesClaimedPattern(arg))
    /\ ret.optional <=> (arg = <<>> \/ ret.required)
    /\ ret.required # ret.optional => arg = <<>>

\* C22 amended: with v the argument without its leading and trailing white space,
\* isHttpUrlRequired(s) is true iff v is non-empty and matches ^https?://\S+$ with
\* the scheme in any letter case; isHttpUrlOptional(s) is true iff v is empty or
\* isHttpUrlRequired(s) is true; the two differ exactly when v is empty.
C22_UrlValidators ==
  pc = "return" =>
    /\ ret.required <=> (Trim(arg) # <<>> /\ MatchesPatternAnyCase(Trim(arg)))
    /\ ret.optional <=> (Trim(arg) = <<>> \/ ret.required)
    /\ ret.required # ret.optional <=> Trim(arg) = <<>>

\* both validators accepted https://a.b/p?q; they differed on the empty string
C22_Witness ==
  /\ pc = "return" /\ ret.required /\ ret.optional
  /\ arg = HTTPS \o <<"a", ".", "b", "/", "p", "?", "q">>

C22_WitnessEmpty == pc = "return" /\ arg = <<>> /\ ~ret.required /\ ret.optional

----------------------------------------------------------------------------
(* champ.js: the home page.  browser.server gives, for each JSON document  *)
(* the page asks for, what the request meets: "items" (an object with a    *)
(* non-empty items array), "empty" (an object with an empty or no items    *)
(* array), "null" (the JSON value null), "httpError" (fetch rejects or     *)
(* res.ok is false) or "badJson" (res.json() rejects).                     *)

Documents == {"config", "siteConfig", "events", "news", "archived", "pinned", "proton"}
Sections == {"events", "news", "proton"}

\* U.fetchJson: fetchRaw throws on a failed request, res.json() on a body that is
\* not JSON (champ.js 135-156)
fetchJson(outcome) ==
  IF outcome \in {"httpError", "badJson"}
    THEN [rejected |-> TRUE, value |-> "none"]
    ELSE [rejected |-> FALSE, value |-> outcome]

\* U.fetchJsonSoft: the fallback instead of the rejection (champ.js 172-178)
fetchJsonSoft(outcome, fallback) ==
  IF fetchJson(outcome).rejected THEN fallback ELSE fetchJson(outcome).value

\* what a loader gives its section: it threw, or the number of items to render
Threw == [threw |-> TRUE, count |-> 0]
Loaded(value) == [threw |-> FALSE, count |-> IF value = "items" THEN 1 ELSE 0]

\* loadEvents (champ.js 285-289): data.items of null is a TypeError
loadEvents(server) ==
  IF fetchJson(server["events"]).rejected \/ fetchJson(server["events"]).value = "null"
    THEN Threw ELSE Loaded(fetchJson(server["events"]).value)

\* loadNews (champ.js 303-331): the items with fetchJson, archived and pinned with
\* fetchJsonSoft; a null document throws where its property is read
loadNews(server) ==
  IF \/ fetchJson(server["news"]).rejected
     \/ fetchJson(server["news"]).value = "null"
     \/ fetchJsonSoft(server["archived"], "empty") = "null"
     \/ fetchJsonSoft(server["pinned"], "empty") = "null"
    THEN Threw ELSE Loaded(fetchJson(server["news"]).value)

\* a variant loading the feed with fetchJson
loadProtonHard(server) ==
  IF fetchJson(server["proton"]).rejected \/ fetchJson(server["proton"]).value = "null"
    THEN Threw ELSE Loaded(fetchJson(server["proton"]).value)

\* loadProton (champ.js 333-337): fetchJsonSoft with the fallback []
loadProton(server) ==
  IF fetchJsonSoft(server["proton"], "empty") = "null"
    THEN Threw ELSE Loaded(fetchJsonSoft(server["proton"], "empty"))

\* one section of renderHome: try { status = Loading; load; render; status = '' or
\* the empty text } catch { status = the error text }
RenderSection(b, name, loaded, emptyText, errorText) ==
  IF name \notin b.hosts THEN b
  ELSE IF loaded.threw THEN [b EXCEPT !.status[name] = errorText]
  ELSE [b EXCEPT !.status[name] = IF loaded.count > 0 THEN "" ELSE emptyText,
                 !.rendered = @ \cup {name}]

\* boot (champ.js 1392-1396): readConfig never throws, its fetches are soft
bootReadConfig ==
  /\ pc = "boot"
  /\ browser' = [browser EXCEPT !.cfg = "normalized"]
  /\ pc' = "renderEvents"
  /\ UNCHANGED <<tree, data, runs, readLog, errors, warnings, exitCode, gitStatus, arg, ret,
                 written>>

renderHomeEvents ==
  /\ pc = "renderEvents"
  /\ browser' = RenderSection(browser, "events", loadEvents(browser.server),
                              "No upcoming events.", "Error loading events.")
  /\ pc' = "renderNews"
  /\ UNCHANGED <<tree, data, runs, readLog, errors, warnings, exitCode, gitStatus, arg, ret,
                 written>>

renderHomeNews ==
  /\ pc = "renderNews"
  /\ browser' = RenderSection(browser, "news", loadNews(browser.server),
                              "No news items yet.", "Error loading news.")
  /\ pc' = "renderProton"
  /\ UNCHANGED <<tree, data, runs, readLog, errors, warnings, exitCode, gitStatus, arg, ret,
                 written>>

renderHomeProton ==
  /\ pc = "renderProton"
  /\ browser' = RenderSection(browser, "proton", loadProton(browser.server),
                              "No updates yet.", "Error loading updates.")
  /\ pc' = "booted"
  /\ UNCHANGED <<tree, data, runs, readLog, errors, warnings, exitCode, gitStatus, arg, ret,
                 written>>

HomeServers ==
  { [d \in Documents |->
       CASE d = "config" -> c
         [] d = "siteConfig" -> "httpError"
         [] d = "events" -> e
         [] d = "news" -> n
         [] d = "archived" -> a
         [] d = "pinned" -> "httpError"
         [] d = "proton" -> p] :
      c \in {"empty", "httpError"},
      e \in {"items", "empty", "null", "httpError", "badJson"},
      n \in {"items", "null", "httpError", "badJson"},
      a \in {"empty", "null", "httpError"},
      p \in {"items", "empty", "null", "httpError", "badJson"} }

\* no script has run: the working tree and the outputs play no part on the page
NoScriptRan ==
  /\ tree = MkTree(Absent, Absent, Absent, Absent, Absent, {})
  /\ data = NoData
  /\ runs = 0
  /\ readLog = {}
  /\ errors = <<>>
  /\ warnings = <<>>
  /\ exitCode = -1
  /\ gitStatus = <<>>
  /\ arg = <<>>
  /\ ret = <<>>

HomeInit ==
  /\ NoScriptRan /\ written = NoFiles
  /\ pc = "boot"
  /\ browser \in { [kind |-> "home", server |-> s, hosts |-> h, cfg |-> "none",
                    status |-> [x \in Sections |-> "initial"], rendered |-> {}] :
                   s \in HomeServers, h \in {Sections, {"events", "proton"}, {"news"}} }

HomeNext == bootReadConfig \/ renderHomeEvents \/ renderHomeNews \/ renderHomeProton

HomeSpec == HomeInit /\ [][HomeNext]_vars

\* the request for a section's own document fails
FailsToLoad(name) == browser.server[name] \in {"httpError", "badJson"}

ErrorText(name) ==
  CASE name = "events" -> "Error loading events."
    [] name = "news" -> "Error loading news."
    [] name = "proton" -> "Error loading updates."

\* after boot, every section of the page whose loader did not throw is rendered and
\* its status is no error text
OthersRendered ==
  /\ ~loadEvents(browser.server).threw /\ "events" \in browser.hosts =>
       "events" \in browser.rendered /\ browser.status["events"] # ErrorText("events")
  /\ ~loadNews(browser.server).threw /\ "news" \in browser.hosts =>
       "news" \in browser.rendered /\ browser.status["news"] # ErrorText("news")
  /\ ~loadProton(browser.server).threw /\ "proton" \in browser.hosts =>
       "proton" \in browser.rendered /\ browser.status["proton"] # ErrorText("proton")

\* C23 as claimed: on the home page a fetch or parse failure of the events, news or
\* proton document sets that section's status to an error text, every other section
\* is still loaded and rendered, and boot ends without an exception escaping.
C23_AsClaimed ==
  (browser.kind = "home" /\ pc = "booted") =>
    /\ \A name \in browser.hosts : FailsToLoad(name) => browser.status[name] = ErrorText(name)
    /\ OthersRendered

\* C23 amended: a fetch or parse failure of the events or the news document sets
\* that section's status to its error text; a fetch or parse failure of the proton
\* feed is taken as an empty feed and sets the status "No updates yet."; every
\* section whose loader did not throw is still rendered, and boot ends without an
\* exception escaping.
C23_SectionUnavailable ==
  (browser.kind = "home" /\ pc = "booted") =>
    /\ \A name \in browser.hosts \ {"proton"} :
         FailsToLoad(name) => browser.status[name] = ErrorText(name)
    /\ ("proton" \in browser.hosts /\ FailsToLoad("proton")) =>
         browser.status["proton"] = "No updates yet."
    /\ OthersRendered

\* the events request failed, the page shows the error for events and rendered the
\* news and the feed
C23_Witness ==
  /\ browser.kind = "home" /\ pc = "booted"
  /\ browser.server["events"] = "httpError"
  /\ browser.status["events"] = "Error loading events."
  /\ browser.rendered = {"news", "proton"}
  /\ browser.status["news"] = "" /\ browser.status["proton"] = ""

\* the feed's body was no JSON and the page says there are no updates
C23_WitnessProton ==
  /\ browser.kind = "home" /\ pc = "booted"
  /\ browser.server["proton"] = "badJson"
  /\ browser.status["proton"] = "No updates yet."

----------------------------------------------------------------------------
(* normalizeGallery on sources that are not well formed.                   *)

\* the well-formed items of the source normalizeGallery reads
WellFormedSourceItems(t) ==
  IF t.galleryMeta.kind = "dir" THEN MetaObjects(t)
  ELSE { v \in IndexItems(t) : v.kind = "obj" }

\* C24 as claimed: normalizeGallery finishes and writes gallery.json whatever its
\* sources hold (an unparseable or non-object meta file, an unparseable legacy
\* index, an index without an items array, an items array with a null or non-object
\* entry), and the well-formed items are in the output.
C24_AsClaimed ==
  GalleryRan =>
    /\ data.gallery.kind = "file"
    /\ \A v \in WellFormedSourceItems(tree) :
         \E i \in 1..Len(data.gallery.items) : data.gallery.items[i] = NormItem(v)

\* the run went on past normalizeGallery with an unparseable meta file beside a
\* well-formed one, whose item is in gallery.json
C24_Witness ==
  /\ pc = "buildMapsPlaceholder"
  /\ tree.galleryMeta.kind = "dir"
  /\ \E f \in DOMAIN tree.galleryMeta.files : tree.galleryMeta.files[f].kind = "bad"
  /\ MetaObjects(tree) # {}
  /\ data.gallery.kind = "file" /\ Len(data.gallery.items) = 1

\* the run went on past normalizeGallery with an unparseable legacy index
C24_WitnessLegacy ==
  /\ pc = "buildMapsPlaceholder"
  /\ tree.galleryMeta.kind = "absent" /\ tree.galleryIndex.kind = "file"
  /\ tree.galleryIndex.json.kind = "bad"
  /\ data.gallery = Doc(<<>>)

----------------------------------------------------------------------------
(* The image file the validator checks and the image path the builder      *)
(* writes.                                                                 *)

\* the meta files whose image the validator accepts as an existing local file
AcceptedLocalImages(t) == { f \in LocalImageFiles(t) : exists(t, ResolvedPath(t, f)) }

\* the file a written image path names, taken relative to the repository root
FromRoot(image) == pathJoin(ROOT, image)

\* C25 as claimed: for every gallery meta file whose image the validator accepts as
\* an existing local file, the image path the builder writes for the item, taken
\* relative to the repository root, names the file the validator checked.
C25_AsClaimed ==
  GalleryWritten =>
    \A f \in AcceptedLocalImages(tree) :
      \A item \in WrittenFor(tree.galleryMeta.files[f]) :
        FromRoot(item["image"]) = ResolvedPath(tree, f)

\* gallery.json holds gallery/images/p.jpg for a meta file giving images/p.jpg, the
\* file the validator found
C25_Witness ==
  /\ GalleryWritten
  /\ \E f \in AcceptedLocalImages(tree) :
       /\ JGet(tree.galleryMeta.files[f], "image") = img_rel
       /\ \E item \in WrittenFor(tree.galleryMeta.files[f]) :
            /\ item["image"] = GALLERY_IMAGES_SLASH \o img_name
            /\ FromRoot(item["image"]) = ResolvedPath(tree, f)

\* gallery.json holds the bare name p.jpg for a meta file giving p.jpg
C25_WitnessBare ==
  /\ GalleryWritten
  /\ \E f \in AcceptedLocalImages(tree) :
       /\ JGet(tree.galleryMeta.files[f], "image") = img_name
       /\ \E item \in WrittenFor(tree.galleryMeta.files[f]) : item["image"] = img_name

----------------------------------------------------------------------------
(* champ.js: U.fetchJson and U.readConfig called by several callers (boot  *)
(* and the scripts that use window.Champ.U).  A call runs to its first     *)
(* await in one step; the requests settle in any order between the calls.  *)
(* browser.requests are the network requests issued, browser.json is       *)
(* _cache.json (cache key -> the request its promise belongs to, 0 for no  *)
(* entry), browser.calls the calls made, each with the request it follows  *)
(* and, for readConfig, the value it resolved to.                          *)

\* the most calls of U.fetchJson and U.readConfig made on a page
MaxCalls == 3

KEY_CONFIG == "data/config.json::nocache"
KEY_SITE_CONFIG == "data/site-config.json::nocache"
KEY_EVENTS == "data/events/events.json::nocache"
KEY_EVENTS_CACHED == "data/events/events.json::cache"

CacheKeys == {KEY_CONFIG, KEY_SITE_CONFIG, KEY_EVENTS, KEY_EVENTS_CACHED}

\* a variant taking only a fulfilled promise from the cache
cacheHasFulfilled(b, key) ==
  b.json[key] # 0 /\ b.requests[b.json[key]].state = "fulfilled"

\* _cache.json.has(key)
cacheHas(b, key) == b.json[key] # 0

\* U.fetchJson up to its return (champ.js 156-165): the cached promise, or a new
\* request whose promise is put in the cache
fetchJsonCall(b, key) ==
  IF cacheHas(b, key)
    THEN [b EXCEPT !.calls = Append(@, [fn |-> "fetchJson", key |-> key,
                                         follows |-> b.json[key], value |-> "promise"])]
    ELSE [b EXCEPT !.requests = Append(@, [key |-> key, state |-> "pending"]),
                   !.json[key] = Len(b.requests) + 1,
                   !.calls = Append(@, [fn |-> "fetchJson", key |-> key,
                                        follows |-> Len(b.requests) + 1, value |-> "promise"])]

\* the two fetches readConfig starts (champ.js 271-274), without a call record
fetchConfigs(b) ==
  LET b1 == fetchJsonCall(b, KEY_CONFIG)
      b2 == fetchJsonCall(b1, KEY_SITE_CONFIG)
  IN  [b2 EXCEPT !.calls = b.calls]

callFetchJson ==
  /\ pc = "client" /\ Len(browser.calls) < MaxCalls
  /\ \E key \in {KEY_EVENTS, KEY_EVENTS_CACHED, KEY_CONFIG} :
       browser' = fetchJsonCall(browser, key)
  /\ UNCHANGED <<tree, data, pc, runs, readLog, errors, warnings, exitCode, gitStatus, arg, ret,
                 written>>

\* a request settles: the response arrives and parses, or the fetch or the parse
\* fails
settleRequest ==
  /\ pc = "client"
  /\ \E r \in 1..Len(browser.requests), outcome \in {"fulfilled", "rejected"} :
       /\ browser.requests[r].state = "pending"
       /\ browser' = [browser EXCEPT !.requests[r].state = outcome]
  /\ UNCHANGED <<tree, data, pc, runs, readLog, errors, warnings, exitCode, gitStatus, arg, ret,
                 written>>

\* U.readConfig up to its first await (champ.js 264-274)
callReadConfig ==
  /\ pc = "client" /\ Len(browser.calls) < MaxCalls
  /\ browser' =
       IF browser.config # "null" \/ browser.configTried
         THEN [browser EXCEPT !.calls = Append(@, [fn |-> "readConfig", key |-> "",
                                                   follows |-> 0, value |-> browser.config])]
         ELSE [fetchConfigs(browser) EXCEPT
                 !.configTried = TRUE,
                 !.calls = Append(@, [fn |-> "readConfig", key |-> "", follows |-> 0,
                                      value |-> "waiting"])]
  /\ UNCHANGED <<tree, data, pc, runs, readLog, errors, warnings, exitCode, gitStatus, arg, ret,
                 written>>

\* U.readConfig after Promise.all (champ.js 276-278): both soft fetches have
\* settled; raw = a || b || {} is normalized, stored and returned
resumeReadConfig ==
  /\ pc = "client"
  /\ \E c \in 1..Len(browser.calls) :
       /\ browser.calls[c].fn = "readConfig" /\ browser.calls[c].value = "waiting"
       /\ \A key \in {KEY_CONFIG, KEY_SITE_CONFIG} :
            browser.requests[browser.json[key]].state # "pending"
       /\ browser' = [browser EXCEPT !.config = "normalized",
                                     !.calls[c].value = "normalized"]
  /\ UNCHANGED <<tree, data, pc, runs, readLog, errors, warnings, exitCode, gitStatus, arg, ret,
                 written>>

ClientInit ==
  /\ NoScriptRan /\ written = NoFiles
  /\ pc = "client"
  /\ browser = [kind |-> "client", config |-> "null", configTried |-> FALSE,
                json |-> [key \in CacheKeys |-> 0], requests |-> <<>>, calls |-> <<>>]

ClientNext == callFetchJson \/ settleRequest \/ callReadConfig \/ resumeReadConfig

ClientSpec == ClientInit /\ [][ClientNext]_vars

ReadConfigCalls ==
  { c \in 1..Len(browser.calls) : browser.calls[c].fn = "readConfig" }

\* C26 as claimed: every call of U.readConfig that has resolved resolved to the
\* normalized configuration object, never to null, a call made while an earlier one
\* waits for its fetches included; all calls resolve to that one object.
C26_AsClaimed ==
  browser.kind = "client" =>
    \A c \in ReadConfigCalls : browser.calls[c].value \in {"waiting", "normalized"}

\* a call made after the first call had resolved got the normalized object too
C26_Witness ==
  /\ browser.kind = "client"
  /\ \E c, d \in ReadConfigCalls :
       c < d /\ browser.calls[c].value = "normalized" /\ browser.calls[d].value = "normalized"

\* a call made while the first call waits resolved to null
C26_WitnessNull ==
  /\ browser.kind = "client"
  /\ \E c, d \in ReadConfigCalls :
       c < d /\ browser.calls[c].value = "waiting" /\ browser.calls[d].value = "null"

RequestsFor(key) ==
  { r \in 1..Len(browser.requests) : browser.requests[r].key = key }

FetchJsonCalls(key) ==
  { c \in 1..Len(browser.calls) :
      browser.calls[c].fn = "fetchJson" /\ browser.calls[c].key = key }

\* C27: under any interleaving of U.fetchJson calls and settlements, at most one
\* request is issued per cache key, and every call on a key follows the promise of
\* that one request, whether it is pending, fulfilled or rejected: a failed fetch
\* is what every later caller gets, without a second request.
C27_OneRequestPerKey ==
  browser.kind = "client" =>
    \A key \in CacheKeys :
      /\ Cardinality(RequestsFor(key)) <= 1
      /\ \A c \in FetchJsonCalls(key) :
           /\ browser.calls[c].follows \in RequestsFor(key)
           /\ browser.calls[c].follows = browser.json[key]

\* three calls on one key, the second while the request was in flight or after,
\* the third after it had failed: one request
C27_Witness ==
  /\ browser.kind = "client"
  /\ Cardinality(FetchJsonCalls(KEY_EVENTS)) = 3
  /\ Cardinality(RequestsFor(KEY_EVENTS)) = 1
  /\ browser.requests[browser.json[KEY_EVENTS]].state = "rejected"

----------------------------------------------------------------------------
(* The issue-to-content automation (verify-generated.mjs 42-247): one run  *)
(* reads the issue of the event payload, and for a submission label writes *)
(* one content file from the fields of the issue form.  arg is the issue   *)
(* (label names and body text), written the files written, each            *)
(* [dir, name, kind, text or val].                                         *)

\* the one character of the long news heading that is outside the alphabet
EN_DASH == "u2013"

SUBMISSION_PREFIX == <<"s", "u", "b", "m", "i", "s", "s", "i", "o", "n", ":">>

\* hit.split(":")[1]: the text between the first colon and the next one
SecondPart(name) ==
  LET parts == Split(name, <<":">>)
  IN  IF Len(parts) >= 2 THEN parts[2] ELSE <<>>

\* getLabelPrefix: the kind of the first label starting with "submission:", or
\* <<>> (null, and the empty kind, are both falsy in `if (!kind)`)
getLabelPrefix(labels) ==
  LET hits == { i \in 1..Len(labels) : StartsWith(labels[i], SUBMISSION_PREFIX) }
  IN  IF hits = {} THEN <<>>
      ELSE SecondPart(labels[CHOOSE i \in hits : \A j \in hits : i <= j])

\* [a-z0-9]
IsSlugChar(c) == IsDigit(c) \/ (c \in Alphabet /\ IsLetter(c) /\ LowerChar(c) = c)

\* .replace(/['"]/g, "")
StripQuotes(s) == SelectSeq(s, LAMBDA c : c \notin {"'", "\""})

\* .replace(/[^a-z0-9]+/g, "-")
RECURSIVE Dashify(_)
Dashify(s) ==
  IF s = <<>> THEN <<>>
  ELSE IF IsSlugChar(Head(s)) THEN <<Head(s)>> \o Dashify(Tail(s))
  ELSE IF Len(s) > 1 /\ ~IsSlugChar(s[2]) THEN Dashify(Tail(s))
  ELSE <<"-">> \o Dashify(Tail(s))

\* .replace(/^-+|-+$/g, "")
RECURSIVE TrimDashes(_)
TrimDashes(s) ==
  IF s # <<>> /\ Head(s) = "-" THEN TrimDashes(Tail(s))
  ELSE IF s # <<>> /\ s[Len(s)] = "-" THEN TrimDashes(SubSeq(s, 1, Len(s) - 1))
  ELSE s

\* slugify(s)
slugify(s) ==
  LET lower == [i \in 1..Len(s) |-> IF s[i] \in Alphabet THEN LowerChar(s[i]) ELSE s[i]]
      dashed == TrimDashes(Dashify(StripQuotes(Trim(lower))))
      cut == SubSeq(dashed, 1, Min(80, Len(dashed)))
  IN  IF cut = <<>> THEN <<"i", "t", "e", "m">> ELSE cut

\* writeFileSafe: the text written ends with a line break
writeFileSafe(text) == IF EndsWith(text, NL) THEN text ELSE text \o NL

\* line.match(/^###\s+(.*)\s*$/): the trimmed heading, or matched = FALSE
MatchHeading(line) ==
  IF /\ StartsWith(line, <<"#", "#", "#">>) /\ Len(line) > 3 /\ IsSpace(line[4])
     /\ ~Includes(Trim(Slice(line, 3)), "\r")
    THEN [matched |-> TRUE, key |-> Trim(Slice(line, 3))]
    ELSE [matched |-> FALSE, key |-> <<>>]

\* the loop of parseIssueForm with its flush(): `started` is key !== null; flush
\* returns before it stores or empties the buffer when the key is null or empty
RECURSIVE ParseIssueLines(_, _, _, _, _)
ParseIssueLines(lines, out, key, started, buf) ==
  LET flushed == IF key = <<>> THEN [out |-> out, buf |-> buf]
                 ELSE [out |-> [x \in DOMAIN out \cup {key} |->
                                  IF x = key THEN Trim(Join(buf, NL)) ELSE out[x]],
                       buf |-> <<>>]
  IN  IF lines = <<>> THEN flushed.out
      ELSE LET m == MatchHeading(Head(lines))
           IN  IF m.matched
                 THEN ParseIssueLines(Tail(lines), flushed.out, m.key, TRUE, flushed.buf)
               ELSE IF started
                 THEN ParseIssueLines(Tail(lines), out, key, TRUE, Append(buf, Head(lines)))
               ELSE ParseIssueLines(Tail(lines), out, key, FALSE, buf)

parseIssueForm(body) == ParseIssueLines(SplitLines(body), <<>>, <<>>, FALSE, <<>>)

\* pick(map, ...names): the first named value that is not blank, trimmed
RECURSIVE pick(_, _)
pick(map, names) ==
  IF names = <<>> THEN <<>>
  ELSE IF Head(names) \in DOMAIN map /\ Trim(map[Head(names)]) # <<>>
    THEN Trim(map[Head(names)])
  ELSE pick(map, Tail(names))

\* a builder threw: a required field is missing, or the kind is unknown
BuilderThrew == [ok |-> FALSE]

\* the fields buildEvent picks (verify-generated.mjs 116-122)
EventSubmission(fields) ==
  [ title |-> pick(fields, << <<"E", "v", "e", "n", "t", " ", "t", "i", "t", "l", "e">>, <<"T", "i", "t", "l", "e">> >>),
    date |-> pick(fields, << <<"D", "a", "t", "e", " ", "(", "Y", "Y", "Y", "Y", "-", "M", "M", "-", "D", "D", ")">>, <<"D", "a", "t", "e">> >>),
    time |-> pick(fields, << <<"T", "i", "m", "e", " ", "(", "2", "4", "h", ",", " ", "o", "p", "t", "i", "o", "n", "a", "l", ")">>, <<"T", "i", "m", "e", " ", "(", "2", "4", "h", ")">>, <<"T", "i", "m", "e">> >>),
    location |-> pick(fields, << <<"L", "o", "c", "a", "t", "i", "o", "n">> >>),
    description |-> pick(fields, << <<"D", "e", "s", "c", "r", "i", "p", "t", "i", "o", "n">> >>),
    link |-> pick(fields, << <<"L", "i", "n", "k", " ", "(", "o", "p", "t", "i", "o", "n", "a", "l", ")">>, <<"L", "i", "n", "k">> >>),
    contact |-> pick(fields, << <<"C", "o", "n", "t", "a", "c", "t", " ", "(", "o", "p", "t", "i", "o", "n", "a", "l", ")">>, <<"C", "o", "n", "t", "a", "c", "t">> >>) ]

buildEvent(fields) ==
  LET s == EventSubmission(fields)
  IN  IF s.title = <<>> \/ s.date = <<>> \/ s.location = <<>> \/ s.description = <<>>
        THEN BuilderThrew
        ELSE [ ok |-> TRUE, dir |-> "content/events",
               name |-> s.date \o <<"-">> \o slugify(s.title) \o EXT_TXT,
               kind |-> "txt",
               text |-> writeFileSafe(
                 <<"T", "i", "t", "l", "e", ":", " ">> \o s.title \o NL \o
                 <<"D", "a", "t", "e", ":", " ">> \o s.date \o NL \o
                 <<"T", "i", "m", "e", ":", " ">> \o s.time \o NL \o
                 <<"L", "o", "c", "a", "t", "i", "o", "n", ":", " ">> \o s.location \o NL \o
                 <<"D", "e", "s", "c", "r", "i", "p", "t", "i", "o", "n", ":", " ">> \o s.description \o NL \o
                 <<"L", "i", "n", "k", ":", " ">> \o s.link \o NL \o
                 <<"C", "o", "n", "t", "a", "c", "t", ":", " ">> \o s.contact \o NL) ]

buildLink(fields) ==
  LET title == pick(fields, << <<"L", "i", "n", "k", " ", "t", "i", "t", "l", "e">>, <<"T", "i", "t", "l", "e">> >>)
      url == pick(fields, << <<"U", "R", "L">>, <<"U", "r", "l">> >>)
      category == pick(fields, << <<"C", "a", "t", "e", "g", "o", "r", "y">> >>)
      description == pick(fields, << <<"D", "e", "s", "c", "r", "i", "p", "t", "i", "o", "n", " ", "(", "o", "p", "t", "i", "o", "n", "a", "l", ")">>, <<"D", "e", "s", "c", "r", "i", "p", "t", "i", "o", "n">> >>)
  IN  IF title = <<>> \/ url = <<>> \/ category = <<>>
        THEN BuilderThrew
        ELSE [ ok |-> TRUE, dir |-> "content/links",
               name |-> slugify(title) \o EXT_TXT,
               kind |-> "txt",
               text |-> writeFileSafe(
                 <<"T", "i", "t", "l", "e", ":", " ">> \o title \o NL \o
                 <<"U", "R", "L", ":", " ">> \o url \o NL \o
                 <<"C", "a", "t", "e", "g", "o", "r", "y", ":", " ">> \o category \o NL \o
                 <<"D", "e", "s", "c", "r", "i", "p", "t", "i", "o", "n", ":", " ">> \o description \o NL) ]

buildNews(fields) ==
  LET title == pick(fields, << <<"T", "i", "t", "l", "e">> >>)
      date == pick(fields, << <<"D", "a", "t", "e", " ", "(", "Y", "Y", "Y", "Y", "-", "M", "M", "-", "D", "D", ")">>, <<"D", "a", "t", "e">> >>)
      type == pick(fields, << <<"T", "y", "p", "e">> >>)
      summary == pick(fields, << <<"S", "u", "m", "m", "a", "r", "y", " ", "(", "1">> \o <<EN_DASH>> \o <<"3", " ", "s", "e", "n", "t", "e", "n", "c", "e", "s", ")">>, <<"S", "u", "m", "m", "a", "r", "y">> >>)
      body == pick(fields, << <<"B", "o", "d", "y", " ", "(", "m", "a", "r", "k", "d", "o", "w", "n", " ", "o", "k", ")">>, <<"B", "o", "d", "y">> >>)
      thumb == pick(fields, << <<"T", "h", "u", "m", "b", "n", "a", "i", "l", " ", "U", "R", "L", " ", "(", "o", "p", "t", "i", "o", "n", "a", "l", ")">>, <<"T", "h", "u", "m", "b", "n", "a", "i", "l">> >>)
  IN  IF title = <<>> \/ date = <<>> \/ type = <<>> \/ summary = <<>> \/ body = <<>>
        THEN BuilderThrew
        ELSE [ ok |-> TRUE, dir |-> "content/news",
               name |-> date \o <<"-">> \o slugify(title) \o EXT_JSON,
               kind |-> "json",
               val |-> [ id |-> date \o <<"-">> \o slugify(title), title |-> title,
                         date |-> date, type |-> type, summary |-> summary, body |-> body,
                         thumb |-> thumb, pinned |-> FALSE, archived |-> FALSE ] ]

\* tags.split(",").map(t => t.trim()).filter(Boolean), [] for no tags
SplitTags(tags) ==
  IF tags = <<>> THEN <<>>
  ELSE SelectSeq([i \in 1..Len(Split(tags, <<",">>)) |-> Trim(Split(tags, <<",">>)[i])],
                 LAMBDA t : t # <<>>)

buildGallery(fields) ==
  LET title == pick(fields, << <<"T", "i", "t", "l", "e">> >>)
      date == pick(fields, << <<"D", "a", "t", "e", " ", "(", "Y", "Y", "Y", "Y", "-", "M", "M", "-", "D", "D", ")">>, <<"D", "a", "t", "e">> >>)
      imageUrl == pick(fields, << <<"I", "m", "a", "g", "e", " ", "U", "R", "L", " ", "(", "G", "o", "o", "g", "l", "e", " ", "D", "r", "i", "v", "e", " ", "s", "h", "a", "r", "e", " ", "l", "i", "n", "k", ",", " ", "I", "m", "g", "u", "r", ",", " ", "e", "t", "c", ".", ")">>,
                                  <<"I", "m", "a", "g", "e", " ", "U", "R", "L">> >>)
      credit == pick(fields, << <<"P", "h", "o", "t", "o", "g", "r", "a", "p", "h", "e", "r", " ", "/", " ", "c", "r", "e", "d", "i", "t", " ", "(", "o", "p", "t", "i", "o", "n", "a", "l", ")">>, <<"C", "r", "e", "d", "i", "t">> >>)
      tags == pick(fields, << <<"T", "a", "g", "s", " ", "(", "c", "o", "m", "m", "a", "-", "s", "e", "p", "a", "r", "a", "t", "e", "d", ")">>, <<"T", "a", "g", "s">> >>)
      description == pick(fields, << <<"D", "e", "s", "c", "r", "i", "p", "t", "i", "o", "n", " ", "(", "o", "p", "t", "i", "o", "n", "a", "l", ")">>, <<"D", "e", "s", "c", "r", "i", "p", "t", "i", "o", "n">> >>)
      id == <<"e", "x", "t", "-">> \o date \o <<"-">> \o slugify(title)
  IN  IF title = <<>> \/ date = <<>> \/ imageUrl = <<>>
        THEN BuilderThrew
        ELSE [ ok |-> TRUE, dir |-> "gallery/meta",
               name |-> id \o EXT_JSON,
               kind |-> "json",
               val |-> [ id |-> id, title |-> title, date |-> date, image |-> imageUrl,
                         credit |-> credit, tags |-> SplitTags(tags),
                         description |-> description ] ]

KIND_EVENT == <<"e", "v", "e", "n", "t">>
KIND_LINK == <<"l", "i", "n", "k">>
KIND_NEWS == <<"n", "e", "w", "s">>
KIND_GALLERY == <<"g", "a", "l", "l", "e", "r", "y">>

KnownKinds == {KIND_EVENT, KIND_LINK, KIND_NEWS, KIND_GALLERY}

\* a variant that dispatches every kind it does not know to buildEvent
DispatchLenient(kind, fields) ==
  IF kind = KIND_LINK THEN buildLink(fields)
  ELSE IF kind = KIND_NEWS THEN buildNews(fields)
  ELSE IF kind = KIND_GALLERY THEN buildGallery(fields)
  ELSE buildEvent(fields)

\* the dispatch on the kind (verify-generated.mjs 240-245)
Dispatch(kind, fields) ==
  IF kind = KIND_EVENT THEN buildEvent(fields)
  ELSE IF kind = KIND_LINK THEN buildLink(fields)
  ELSE IF kind = KIND_NEWS THEN buildNews(fields)
  ELSE IF kind = KIND_GALLERY THEN buildGallery(fields)
  ELSE BuilderThrew

\* one run of the automation script
automationMain ==
  /\ pc = "main"
  /\ \E kind \in {getLabelPrefix(arg.labels)} :
       IF kind = <<>>
         THEN pc' = "exit" /\ exitCode' = 0 /\ written' = written
         ELSE \E created \in {Dispatch(kind, parseIssueForm(arg.body))} :
                IF created.ok
                  THEN /\ written' = Append(written, [x \in DOMAIN created \ {"ok"} |-> created[x]])
                       /\ pc' = "created" /\ exitCode' = 0
                  ELSE pc' = "crashed" /\ exitCode' = 1 /\ written' = written
  /\ UNCHANGED <<tree, data, runs, readLog, errors, warnings, gitStatus, arg, ret, browser>>

\* the builder reads the event file the automation wrote (build-data.mjs 53-67)
buildEventsOnWritten ==
  /\ pc = "created" /\ written[1].dir = "content/events"
  /\ ret' = EventItem(written[1].name, written[1].text)
  /\ pc' = "built"
  /\ UNCHANGED <<tree, data, runs, readLog, errors, warnings, exitCode, gitStatus, arg, browser,
                 written>>

\* an issue form as GitHub renders it: per field a heading, a blank line, the
\* value, a blank line
RECURSIVE FormBody(_)
FormBody(sections) ==
  IF sections = <<>> THEN <<>>
  ELSE <<"#", "#", "#", " ">> \o Head(sections)[1] \o NL \o NL \o Head(sections)[2] \o NL \o NL
       \o FormBody(Tail(sections))

D_PLAIN == <<"B", "r", "i", "n", "g", " ", "w", "a", "t", "e", "r">>
D_LINK_LINE == <<"M", "e", "e", "t", " ", "a", "t", " ", "g", "a", "t", "e", "\n", "L", "i", "n", "k", ":", " ", "x">>
D_TITLE_LINE == <<"W", "a", "l", "k", "\n", "T", "i", "t", "l", "e", ":", " ", "T", "w", "o">>

EventBodies ==
  { FormBody(<< << <<"E", "v", "e", "n", "t", " ", "t", "i", "t", "l", "e">>, title >>,
                << <<"D", "a", "t", "e", " ", "(", "Y", "Y", "Y", "Y", "-", "M", "M", "-", "D", "D", ")">>, <<"2", "0", "2", "4", "-", "0", "5", "-", "0", "1">> >>,
                << <<"T", "i", "m", "e", " ", "(", "2", "4", "h", ",", " ", "o", "p", "t", "i", "o", "n", "a", "l", ")">>, time >>,
                << <<"L", "o", "c", "a", "t", "i", "o", "n">>, <<"P", "a", "r", "k">> >>,
                << <<"D", "e", "s", "c", "r", "i", "p", "t", "i", "o", "n">>, description >>,
                << <<"L", "i", "n", "k", " ", "(", "o", "p", "t", "i", "o", "n", "a", "l", ")">>, link >>,
                << <<"C", "o", "n", "t", "a", "c", "t", " ", "(", "o", "p", "t", "i", "o", "n", "a", "l", ")">>, contact >> >>) :
      title \in { <<"H", "i", "k", "e", " ", "D", "a", "y">>, <<>> },
      time \in { <<"0", "9", ":", "3", "0">>, <<>> },
      description \in { D_PLAIN, D_LINK_LINE, D_TITLE_LINE, <<>> },
      link \in { <<"h", "t", "t", "p", "s", ":", "/", "/", "e", ".", "o", "r", "g", "/", "a">>, <<>> },
      contact \in { <<"B", "o">>, <<>> } }

LinkBodies ==
  { FormBody(<< << <<"L", "i", "n", "k", " ", "t", "i", "t", "l", "e">>, title >>, << <<"U", "R", "L">>, url >>,
                << <<"C", "a", "t", "e", "g", "o", "r", "y">>, <<"C", "l", "u", "b", "s">> >>, << <<"D", "e", "s", "c", "r", "i", "p", "t", "i", "o", "n", " ", "(", "o", "p", "t", "i", "o", "n", "a", "l", ")">>, description >> >>) :
      title \in { <<"C", "l", "u", "b">>, <<>> },
      url \in { <<"h", "t", "t", "p", "s", ":", "/", "/", "e", ".", "o", "r", "g">>, <<>> },
      description \in { <<"x">>, <<>> } }

NewsBodies ==
  { FormBody(<< << <<"T", "i", "t", "l", "e">>, <<"N", "o", "t", "i", "c", "e">> >>, << <<"D", "a", "t", "e">>, <<"2", "0", "2", "4", "-", "0", "5", "-", "0", "1">> >>,
                << <<"T", "y", "p", "e">>, type >>, << <<"S", "u", "m", "m", "a", "r", "y">>, summary >>, << <<"B", "o", "d", "y">>, body >> >>) :
      type \in { <<"U", "p", "d", "a", "t", "e">>, <<>> },
      summary \in { <<"s">>, <<>> },
      body \in { <<"b">>, <<>> } }

GalleryBodies ==
  { FormBody(<< << <<"T", "i", "t", "l", "e">>, title >>, << <<"D", "a", "t", "e">>, <<"2", "0", "2", "4", "-", "0", "5", "-", "0", "1">> >>,
                << <<"I", "m", "a", "g", "e", " ", "U", "R", "L">>, imageUrl >>, << <<"T", "a", "g", "s">>, tags >> >>) :
      title \in { <<"P", "o", "n", "d">>, <<>> },
      imageUrl \in { <<"h", "t", "t", "p", "s", ":", "/", "/", "e", ".", "o", "r", "g", "/", "p", ".", "j", "p", "g">>, <<>> },
      tags \in { <<"a", ",", " ", "b">>, <<>> } }

L_BUG == <<"b", "u", "g">>
L_EVENT == <<"s", "u", "b", "m", "i", "s", "s", "i", "o", "n", ":", "e", "v", "e", "n", "t">>
L_LINK == <<"s", "u", "b", "m", "i", "s", "s", "i", "o", "n", ":", "l", "i", "n", "k">>
L_NEWS == <<"s", "u", "b", "m", "i", "s", "s", "i", "o", "n", ":", "n", "e", "w", "s">>
L_GALLERY == <<"s", "u", "b", "m", "i", "s", "s", "i", "o", "n", ":", "g", "a", "l", "l", "e", "r", "y">>
L_MAP == <<"s", "u", "b", "m", "i", "s", "s", "i", "o", "n", ":", "m", "a", "p">>
L_EMPTY_KIND == <<"s", "u", "b", "m", "i", "s", "s", "i", "o", "n", ":">>

LabelLists ==
  { <<>>, <<L_BUG>>, <<L_EVENT>>, <<L_BUG, L_EVENT>>, <<L_LINK>>, <<L_NEWS>>, <<L_GALLERY>>,
    <<L_MAP>>, <<L_EMPTY_KIND>>, <<L_MAP, L_EVENT>> }

Issues ==
  [labels : {<<L_EVENT>>}, body : EventBodies]
  \cup [labels : {<<L_LINK>>}, body : LinkBodies]
  \cup [labels : {<<L_NEWS>>}, body : NewsBodies]
  \cup [labels : {<<L_GALLERY>>}, body : GalleryBodies]
  \cup [labels : LabelLists,
        body : { <<>>,
                 FormBody(<< << <<"T", "i", "t", "l", "e">>, <<"N", "o", "t", "i", "c", "e">> >>, << <<"D", "a", "t", "e">>, <<"2", "0", "2", "4", "-", "0", "5", "-", "0", "1">> >>,
                             << <<"L", "o", "c", "a", "t", "i", "o", "n">>, <<"P", "a", "r", "k">> >>, << <<"D", "e", "s", "c", "r", "i", "p", "t", "i", "o", "n">>, D_PLAIN >>,
                             << <<"U", "R", "L">>, <<"h", "t", "t", "p", "s", ":", "/", "/", "e", ".", "o", "r", "g">> >>, << <<"C", "a", "t", "e", "g", "o", "r", "y">>, <<"C", "l", "u", "b", "s">> >>,
                             << <<"T", "y", "p", "e">>, <<"U", "p", "d", "a", "t", "e">> >>, << <<"S", "u", "m", "m", "a", "r", "y">>, <<"s">> >>,
                             << <<"B", "o", "d", "y">>, <<"b">> >>,
                             << <<"I", "m", "a", "g", "e", " ", "U", "R", "L">>, <<"h", "t", "t", "p", "s", ":", "/", "/", "e", ".", "o", "r", "g", "/", "p", ".", "j", "p", "g">> >> >>) }]

IssueInit ==
  /\ tree = MkTree(Absent, Absent, Absent, Absent, Absent, {})
  /\ data = NoData
  /\ runs = 0
  /\ readLog = {}
  /\ errors = <<>>
  /\ warnings = <<>>
  /\ exitCode = -1
  /\ gitStatus = <<>>
  /\ ret = <<>>
  /\ browser = NoBrowser
  /\ written = NoFiles
  /\ pc = "main"
  /\ arg \in Issues

IssueNext == automationMain \/ buildEventsOnWritten

IssueSpec == IssueInit /\ [][IssueNext]_vars

\* what the submitter entered, as buildEvent took it from the form
Submitted == EventSubmission(parseIssueForm(arg.body))

\* C28 as claimed: for every event submission buildEvent accepted, the item the
\* builder makes of the written file has the submitted title, date, time,
\* location, link and contact, whatever the description holds.
C28_AsClaimed ==
  pc = "built" =>
    /\ ret.title = Submitted.title
    /\ ret.date = Submitted.date
    /\ ret.time = Submitted.time
    /\ ret.location = Submitted.location
    /\ ret.link = Submitted.link
    /\ ret.contact = Submitted.contact

\* a submission with a one-line description came back unchanged
C28_Witness ==
  /\ pc = "built"
  /\ Submitted.description = D_PLAIN
  /\ Submitted.link # <<>> /\ Submitted.time # <<>>
  /\ ret.title = Submitted.title /\ ret.link = Submitted.link /\ ret.time = Submitted.time

\* a description line `Link: x` changed the link
C28_WitnessChanged ==
  /\ pc = "built"
  /\ Submitted.description = D_LINK_LINE
  /\ ret.link # Submitted.link

\* the kinds of the submission labels the issue carries, and the kind of the
\* first of them (<<>> when there is none)
CarriedKinds ==
  { SecondPart(arg.labels[i]) :
      i \in { j \in 1..Len(arg.labels) : StartsWith(arg.labels[j], SUBMISSION_PREFIX) } }

DecidingKind ==
  LET hits == { j \in 1..Len(arg.labels) : StartsWith(arg.labels[j], SUBMISSION_PREFIX) }
  IN  IF hits = {} THEN <<>>
      ELSE SecondPart(arg.labels[CHOOSE j \in hits : \A h \in hits : j <= h])

\* the form has a non-blank value under one of the headings
Filled(names) == pick(parseIssueForm(arg.body), names) # <<>>

\* every field required for the kind is filled in
RequiredFilled(kind) ==
  IF kind = KIND_EVENT
    THEN /\ Filled(<< <<"E", "v", "e", "n", "t", " ", "t", "i", "t", "l", "e">>, <<"T", "i", "t", "l", "e">> >>)
         /\ Filled(<< <<"D", "a", "t", "e", " ", "(", "Y", "Y", "Y", "Y", "-", "M", "M", "-", "D", "D", ")">>, <<"D", "a", "t", "e">> >>)
         /\ Filled(<< <<"L", "o", "c", "a", "t", "i", "o", "n">> >>)
         /\ Filled(<< <<"D", "e", "s", "c", "r", "i", "p", "t", "i", "o", "n">> >>)
  ELSE IF kind = KIND_LINK
    THEN /\ Filled(<< <<"L", "i", "n", "k", " ", "t", "i", "t", "l", "e">>, <<"T", "i", "t", "l", "e">> >>)
         /\ Filled(<< <<"U", "R", "L">>, <<"U", "r", "l">> >>)
         /\ Filled(<< <<"C", "a", "t", "e", "g", "o", "r", "y">> >>)
  ELSE IF kind = KIND_NEWS
    THEN /\ Filled(<< <<"T", "i", "t", "l", "e">> >>)
         /\ Filled(<< <<"D", "a", "t", "e", " ", "(", "Y", "Y", "Y", "Y", "-", "M", "M", "-", "D", "D", ")">>, <<"D", "a", "t", "e">> >>)
         /\ Filled(<< <<"T", "y", "p", "e">> >>)
         /\ Filled(<< <<"S", "u", "m", "m", "a", "r", "y", " ", "(", "1">> \o <<EN_DASH>> \o <<"3", " ", "s", "e", "n", "t", "e", "n", "c", "e", "s", ")">>, <<"S", "u", "m", "m", "a", "r", "y">> >>)
         /\ Filled(<< <<"B", "o", "d", "y", " ", "(", "m", "a", "r", "k", "d", "o", "w", "n", " ", "o", "k", ")">>, <<"B", "o", "d", "y">> >>)
  ELSE /\ Filled(<< <<"T", "i", "t", "l", "e">> >>)
       /\ Filled(<< <<"D", "a", "t", "e", " ", "(", "Y", "Y", "Y", "Y", "-", "M", "M", "-", "D", "D", ")">>, <<"D", "a", "t", "e">> >>)
       /\ Filled(<< <<"I", "m", "a", "g", "e", " ", "U", "R", "L", " ", "(", "G", "o", "o", "g", "l", "e", " ", "D", "r", "i", "v", "e", " ", "s", "h", "a", "r", "e", " ", "l", "i", "n", "k", ",", " ", "I", "m", "g", "u", "r", ",", " ", "e", "t", "c", ".", ")">>, <<"I", "m", "a", "g", "e", " ", "U", "R", "L">> >>)

RunOver == pc # "main"

\* C29 as claimed: a run writes exactly one file when the issue carries a
\* submission label of a known kind whose required fields are filled in; it writes
\* none and exits 0 when the issue carries no submission label; it writes none and
\* fails when the kind carried is unknown or a required field is missing.
C29_AsClaimed ==
  RunOver =>
    /\ (\E k \in CarriedKinds \cap KnownKinds : RequiredFilled(k)) => Len(written) = 1
    /\ CarriedKinds = {} => (written = NoFiles /\ exitCode = 0)
    /\ (CarriedKinds # {} /\ CarriedKinds \cap KnownKinds = {}) =>
         (written = NoFiles /\ exitCode = 1)
    /\ (/\ CarriedKinds \cap KnownKinds # {}
        /\ \A k \in CarriedKinds \cap KnownKinds : ~RequiredFilled(k)) =>
         (written = NoFiles /\ exitCode = 1)

\* C29, amended: the first label starting with "submission:" decides.  A run
\* writes exactly one file (and exits 0) when that label names a known kind whose
\* required fields are filled in; it writes none and exits 0 when there is no such
\* label or the label names no kind ("submission:"); it writes none and fails when
\* the label names an unknown kind or a required field of its kind is missing.
C29_FirstLabelDecides ==
  RunOver =>
    /\ (DecidingKind \in KnownKinds /\ RequiredFilled(DecidingKind)) =>
         (Len(written) = 1 /\ exitCode = 0)
    /\ DecidingKind = <<>> => (written = NoFiles /\ exitCode = 0)
    /\ (DecidingKind # <<>> /\ DecidingKind \notin KnownKinds) =>
         (written = NoFiles /\ exitCode = 1)
    /\ (DecidingKind \in KnownKinds /\ ~RequiredFilled(DecidingKind)) =>
         (written = NoFiles /\ exitCode = 1)

\* a gallery submission with its required fields gave one meta file
C29_Witness ==
  /\ RunOver
  /\ DecidingKind = KIND_GALLERY /\ RequiredFilled(KIND_GALLERY)
  /\ Len(written) = 1 /\ written[1].dir = "gallery/meta"

\* an issue carrying an unknown kind before a known, complete one: no file
C29_WitnessSecondLabel ==
  /\ RunOver
  /\ arg.labels = <<L_MAP, L_EVENT>> /\ RequiredFilled(KIND_EVENT)
  /\ written = NoFiles /\ exitCode = 1

----------------------------------------------------------------------------
(* theme-toggle.js: the script runs when it is loaded, initialises on      *)
(* DOMContentLoaded and toggles on each click of the button.  arg is what  *)
(* the page starts from: the value stored under champ_theme (stored = FALSE*)
(* for none), the OS preference, the data-theme attribute of the document, *)
(* whether the utilities are loaded and whether the page has the button.   *)
(* browser.storage is localStorage's champ_theme entry, browser.theme is   *)
(* document.documentElement.dataset.theme (<<>> when unset).               *)

DARK == <<"d", "a", "r", "k">>
LIGHT == <<"l", "i", "g", "h", "t">>

\* getPreferredTheme (theme-toggle.js 13-21)
getPreferredTheme(b) ==
  LET saved == ToLowerCase(Trim(IF b.storage.stored THEN b.storage.value ELSE <<>>))
  IN  IF saved = DARK \/ saved = LIGHT THEN saved
      ELSE IF b.prefersDark THEN DARK ELSE LIGHT

\* a variant of applyTheme that leaves localStorage alone
applyThemeNoStore(b, theme) ==
  LET t == IF theme = LIGHT THEN LIGHT ELSE DARK
  IN  [b EXCEPT !.theme = t,
                !.pressed = IF b.hasButton THEN (IF t = DARK THEN "true" ELSE "false") ELSE @]

\* applyTheme (theme-toggle.js 23-36)
applyTheme(b, theme) ==
  LET t == IF theme = LIGHT THEN LIGHT ELSE DARK
  IN  [b EXCEPT !.theme = t,
                !.storage = [stored |-> TRUE, value |-> t],
                !.pressed = IF b.hasButton THEN (IF t = DARK THEN "true" ELSE "false") ELSE @]

\* toggleTheme (theme-toggle.js 38-41)
toggleTheme(b) ==
  LET current == ToLowerCase(Or(b.theme, DARK))
  IN  applyTheme(b, IF current = DARK THEN LIGHT ELSE DARK)

\* the script body (theme-toggle.js 4-9, 43): without the utilities it returns,
\* otherwise it waits for DOMContentLoaded
loadThemeScript ==
  /\ pc = "loading"
  /\ pc' = IF arg.hasUtils THEN "waiting" ELSE "inert"
  /\ UNCHANGED <<tree, data, runs, readLog, errors, warnings, exitCode, gitStatus, arg, ret,
                 browser, written>>

\* the DOMContentLoaded handler (theme-toggle.js 43-50)
onDOMContentLoaded ==
  /\ pc = "waiting"
  /\ browser' = [applyTheme(browser, getPreferredTheme(browser)) EXCEPT
                   !.listening = browser.hasButton]
  /\ pc' = "ready"
  /\ UNCHANGED <<tree, data, runs, readLog, errors, warnings, exitCode, gitStatus, arg, ret,
                 written>>

\* a click on the button
clickToggle ==
  /\ pc = "ready" /\ browser.listening
  /\ browser' = toggleTheme(browser)
  /\ UNCHANGED <<tree, data, pc, runs, readLog, errors, warnings, exitCode, gitStatus, arg, ret,
                 written>>

StoredBefore ==
  { [stored |-> FALSE, value |-> <<>>] }
  \cup [stored : {TRUE},
        value : { <<>>, DARK, LIGHT, <<" ", "D", "a", "r", "k", " ">>, <<"L", "I", "G", "H", "T">>, <<"a", "u", "t", "o">>, <<"d", "a", "r", "k", "e", "r">> }]

ThemeInit ==
  /\ tree = MkTree(Absent, Absent, Absent, Absent, Absent, {})
  /\ data = NoData
  /\ runs = 0
  /\ readLog = {}
  /\ errors = <<>>
  /\ warnings = <<>>
  /\ exitCode = -1
  /\ gitStatus = <<>>
  /\ ret = <<>>
  /\ written = NoFiles
  /\ pc = "loading"
  /\ arg \in [storage : StoredBefore, prefersDark : BOOLEAN, attribute : {<<>>, LIGHT, <<"D", "a", "r", "k">>},
              hasUtils : BOOLEAN, hasButton : BOOLEAN]
  /\ browser = [kind |-> "theme", storage |-> arg.storage, prefersDark |-> arg.prefersDark,
                theme |-> arg.attribute, hasButton |-> arg.hasButton, pressed |-> "unset",
                listening |-> FALSE]

ThemeNext == loadThemeScript \/ onDOMContentLoaded \/ clickToggle

ThemeSpec == ThemeInit /\ [][ThemeNext]_vars

Initialised == browser.kind = "theme" /\ pc = "ready"

OtherTheme(t) == IF t = DARK THEN LIGHT ELSE DARK

\* C30: once the toggle has initialised, and after any number of clicks, the
\* document's theme is 'dark' or 'light' and the value stored under champ_theme
\* equals it; each click switches the theme to the other value; whatever was
\* stored before initialisation.
C30_ThemeToggle ==
  /\ [](Initialised =>
          /\ browser.theme \in {DARK, LIGHT}
          /\ browser.storage.stored /\ browser.storage.value = browser.theme)
  /\ [][(Initialised /\ browser' # browser) => browser'.theme = OtherTheme(browser.theme)]_vars

\* a page that started from a stored value that names no theme, on a system
\* preferring dark, shows light: it was initialised and clicked
C30_Witness ==
  /\ Initialised
  /\ arg.storage.stored /\ arg.storage.value = <<"a", "u", "t", "o">> /\ arg.prefersDark
  /\ browser.theme = LIGHT /\ browser.storage.value = LIGHT

====
